---- MODULE Spec2Model ----
(***************************************************************************)
(* RISeR2: the discrete-PDF type, its construction and validation, and the *)
(* random-variable algebra built on it (src/riser).                        *)
(*                                                                         *)
(* Numbers.  A numpy float64 is modelled as an exact fraction [n, d] in    *)
(* lowest terms with d > 0, extended by the IEEE-754 special values that   *)
(* numpy produces instead of raising: d = 0 with n = 1 (+inf), n = -1      *)
(* (-inf) and n = 0 (nan).  Rounding error is not modelled.                *)
(*                                                                         *)
(* Calls.  A function is an operator that yields a record: status is "ok"  *)
(* or the exception raised, obj the object returned, and, where the        *)
(* function writes through a reference it was given, the contents of that  *)
(* buffer after the call.                                                  *)
(***************************************************************************)
EXTENDS Integers, Sequences, FiniteSets, TLC

VARIABLES
    arrays,   \* the caller-owned numpy arrays x and px handed to PDF(...)
    pdfs,     \* the PDF objects the caller holds
    ret,      \* what the last call did: its outcome and what it returned
    calls     \* number of calls made on the caller's arrays x and px

vars == <<arrays, pdfs, ret, calls>>

-----------------------------------------------------------------------------
(* Bounds of the model                                                     *)

MaxLen == 3        \* longest caller array
MaxX == 1          \* caller domain values are 0..MaxX
MaxPx == 1         \* caller densities are -1..MaxPx
MaxCalls == 2      \* calls on the caller's arrays in one behaviour
MaxList == 3       \* longest list of PDFs handed to Combine / Merge
MaxWidth == 5      \* widest filter handed to filter_pdf
MaxTrials == 2     \* largest trial ceiling hard_stop handed to the sampler
MaxSamples == 2    \* largest n_samples handed to the sampler

-----------------------------------------------------------------------------
(* float64 arithmetic                                                      *)

Abs(i) == IF i < 0 THEN -i ELSE i

Sgn(i) == IF i < 0 THEN -1 ELSE IF i > 0 THEN 1 ELSE 0

RECURSIVE GCD(_, _)
GCD(a, b) == IF b = 0 THEN a ELSE GCD(b, a % b)

F(n, d) ==
    IF d = 0 THEN [n |-> Sgn(n), d |-> 0]
    ELSE LET s == IF d < 0 THEN -1 ELSE 1
             g == GCD(Abs(n), Abs(d))
         IN  [n |-> (s * n) \div g, d |-> (s * d) \div g]

I(i) == [n |-> i, d |-> 1]

NaN == [n |-> 0, d |-> 0]
Inf == [n |-> 1, d |-> 0]

IsNaN(a) == a.d = 0 /\ a.n = 0
IsInf(a) == a.d = 0 /\ a.n # 0
IsFinite(a) == a.d > 0

FNeg(a) == [n |-> -a.n, d |-> a.d]

FAbs(a) == [n |-> Abs(a.n), d |-> a.d]

FAdd(a, b) ==
    IF IsInf(a) /\ IsInf(b)
    THEN (IF a.n = b.n THEN a ELSE NaN)
    ELSE F(a.n * b.d + b.n * a.d, a.d * b.d)

FSub(a, b) == FAdd(a, FNeg(b))

FMul(a, b) == F(a.n * b.n, a.d * b.d)

FDiv(a, b) == F(a.n * b.d * (IF b.n < 0 THEN -1 ELSE 1), a.d * Abs(b.n))

\* a < b and a > b; every comparison with nan is False
FLt(a, b) ==
    /\ ~IsNaN(a)
    /\ ~IsNaN(b)
    /\ IF IsInf(a) /\ IsInf(b) THEN a.n < b.n ELSE a.n * b.d < b.n * a.d

FGt(a, b) == FLt(b, a)

FLe(a, b) == ~IsNaN(a) /\ ~IsNaN(b) /\ ~FLt(b, a)

\* np.sign: -1, 0 or 1 (nan for nan, which equals nothing)
HasNegative(s) == \E i \in 1..Len(s) : s[i].n < 0

-----------------------------------------------------------------------------
(* numpy / scipy array functions                                           *)

Reverse(s) == [i \in 1..Len(s) |-> s[Len(s) + 1 - i]]

\* np.diff
Diff(s) == [i \in 1..(Len(s) - 1) |-> FSub(s[i + 1], s[i])]

RECURSIVE SumTo(_, _)
SumTo(s, k) == IF k = 0 THEN I(0) ELSE FAdd(SumTo(s, k - 1), s[k])

\* np.sum
Sum(s) == SumTo(s, Len(s))

\* d * (y[1:] + y[:-1]) / 2.0, the panels of the trapezoidal rule
Panels(y, x) ==
    [i \in 1..(Len(x) - 1) |->
        FDiv(FMul(FSub(x[i + 1], x[i]), FAdd(y[i + 1], y[i])), I(2))]

\* scipy.integrate.trapezoid(y, x)
trapezoid(y, x) == Sum(Panels(y, x))

\* scipy.integrate.cumulative_trapezoid(y, x, initial=0)
cumulative_trapezoid(y, x) ==
    [i \in 1..Len(x) |-> SumTo(Panels(y, x), i - 1)]

\* px /= v, elementwise
DivideBy(s, v) == [i \in 1..Len(s) |-> FDiv(s[i], v)]

-----------------------------------------------------------------------------
(* precision.py                                                            *)

RISER_PRECISION == 10

-----------------------------------------------------------------------------
(* ProbabilityDensityFunction                                              *)

None == "None"

NoPDF ==
    [x |-> <<>>, px |-> <<>>, Px |-> <<>>,
     name |-> None, variable_type |-> None, unit |-> None]

\* __check_array_lengths__: TRUE when it does not raise
check_array_lengths(x, px) == Len(x) = Len(px)

\* __compute_area__
compute_area(x, px) == trapezoid(px, x)

\* __normalize_area__: the contents of the px buffer after  self.px /= area
normalize_area(x, px) == DivideBy(px, compute_area(x, px))

\* validate: "ok" when it returns True, else the exception it raises
validate(x, px) ==
    IF HasNegative(Diff(x)) THEN "InvalidDomain"
    ELSE IF HasNegative(px) THEN "InvalidDensity"
    ELSE IF FGt(FAbs(FSub(I(1), compute_area(x, px))), I(RISER_PRECISION))
         THEN "UnnormalizedArea"
    ELSE "ok"

\* __compute_cdf__
compute_cdf(x, px) ==
    LET c == cumulative_trapezoid(px, x)
    IN  DivideBy(c, c[Len(c)])

\* __init__.  x and px are passed by reference: the result carries, next to
\* the outcome and the object, the contents of the px buffer after the call.
PDF__init__(x, px, normalize, name, variable_type, unit) ==
    IF ~check_array_lengths(x, px)
    THEN [status |-> "InvalidDomain", px |-> px, obj |-> NoPDF]
    ELSE LET px1 == IF normalize THEN normalize_area(x, px) ELSE px
             v == validate(x, px1)
         IN  IF v # "ok"
             THEN [status |-> v, px |-> px1, obj |-> NoPDF]
             ELSE [status |-> "ok", px |-> px1,
                   obj |-> [x |-> x, px |-> px1, Px |-> compute_cdf(x, px1),
                            name |-> name, variable_type |-> variable_type,
                            unit |-> unit]]

-----------------------------------------------------------------------------
(* units.py                                                                *)

BASE_UNITS == {"m", "y"}

UNIT_SCALES ==
    [p \in {"m", "c", "d", "D", "C", "k", "M"} |->
        CASE p = "m" -> F(1, 1000)
          [] p = "c" -> F(1, 100)
          [] p = "d" -> F(1, 10)
          [] p = "D" -> I(10)
          [] p = "C" -> I(100)
          [] p = "k" -> I(1000)
          [] p = "M" -> I(1000000)]

\* the characters of the unit strings that occur in the model
Chars(unit) ==
    CASE unit = "m" -> <<"m">>
      [] unit = "km" -> <<"k", "m">>
      [] unit = "y" -> <<"y">>
      [] unit = "ky" -> <<"k", "y">>
      [] unit = "m/y" -> <<"m", "/", "y">>

Digits == {"0", "1", "2", "3", "4", "5", "6", "7", "8", "9"}

\* check_base_unit: TRUE when it returns, FALSE when it raises
check_base_unit(base_unit) == base_unit \in BASE_UNITS

\* parse_unit: the (scale, base) it returns, or the ValueError it raises
parse_unit(unit) ==
    LET c == Chars(unit)
        bad == [status |-> "ValueError", scale |-> NaN, base |-> None]
    IN  IF c[Len(c)] \in Digits THEN bad
        ELSE IF Len(c) > 2 THEN bad
        ELSE IF Len(c) = 2 /\ c[1] \notin DOMAIN UNIT_SCALES THEN bad
        ELSE IF ~check_base_unit(c[Len(c)]) THEN bad
        ELSE [status |-> "ok",
              scale |-> IF Len(c) = 2 THEN UNIT_SCALES[c[1]] ELSE I(1),
              base |-> c[Len(c)]]

\* scale_values_by_units: the scaled copy of values, or the ValueError
scale_values_by_units(values, unit_in, unit_out) ==
    LET bad == [status |-> "ValueError", values |-> <<>>]
        compound(u) == \E i \in 1..Len(Chars(u)) : Chars(u)[i] \in {".", "/"}
        pin == parse_unit(unit_in)
        pout == parse_unit(unit_out)
    IN  IF compound(unit_in) \/ compound(unit_out) THEN bad
        ELSE IF pin.status # "ok" \/ pout.status # "ok" THEN bad
        ELSE IF pout.base # pin.base THEN bad
        ELSE [status |-> "ok",
              values |-> [i \in 1..Len(values) |->
                             FMul(FDiv(pin.scale, pout.scale), values[i])]]

\* scale_pdf_by_units.  pdf.px is handed to PDF(...) itself, not a copy:
\* px_in is the contents of pdf.px after the call.
scale_pdf_by_units(pdf, unit_out) ==
    IF pdf.unit = None \/ unit_out = None
    THEN [status |-> "ok", obj |-> pdf, px_in |-> pdf.px]
    ELSE LET sv == scale_values_by_units(pdf.x, pdf.unit, unit_out)
             r == PDF__init__(sv.values, pdf.px, TRUE, pdf.name,
                              pdf.variable_type, unit_out)
         IN  IF sv.status # "ok"
             THEN [status |-> sv.status, obj |-> NoPDF, px_in |-> pdf.px]
             ELSE [status |-> r.status, obj |-> r.obj, px_in |-> r.px]

\* check_same_pdf_units
RECURSIVE check_same_units_from(_, _, _)
check_same_units_from(ps, k, unit) ==
    IF k > Len(ps) THEN unit
    ELSE check_same_units_from(ps, k + 1,
                               IF ps[k].unit # unit THEN None ELSE unit)

check_same_pdf_units(ps) == check_same_units_from(ps, 2, ps[1].unit)

\* the functions units.py defines: the attributes of the module  units
units_namespace ==
    {"parse_unit", "check_base_unit", "get_priority_unit",
     "scale_values_by_units", "scale_pdf_by_units", "check_pdf_base_unit",
     "check_same_pdf_units"}

-----------------------------------------------------------------------------
(* variable_operations.py                                                  *)

\* negate_variable.  neg_px = pdf.px[::-1] is a view of pdf.px, and PDF(...)
\* normalises it in place: px_in is the contents of pdf.px after the call.
negate_variable(pdf) ==
    LET neg_x == [i \in 1..Len(pdf.x) |-> FNeg(Reverse(pdf.x)[i])]
        neg_px == Reverse(pdf.px)
        neg_name == IF pdf.name # None THEN "(negative) " \o pdf.name ELSE None
        r == PDF__init__(neg_x, neg_px, TRUE, neg_name, pdf.variable_type,
                         pdf.unit)
    IN  [status |-> r.status, obj |-> r.obj, px_in |-> Reverse(r.px)]

\* units.<name>(pdfs): the attribute is looked up in the module when the call
\* is reached; a name the module does not define raises AttributeError.
units_call(name, ps) ==
    IF name \notin units_namespace
    THEN [status |-> "AttributeError", value |-> None]
    ELSE [status |-> "ok",
          value |-> CASE name = "check_same_pdf_units"
                           -> check_same_pdf_units(ps)]

\* np.array_equal
array_equal(a, b) ==
    /\ Len(a) = Len(b)
    /\ \A i \in 1..Len(a) :
          ~IsNaN(a[i]) /\ ~IsNaN(b[i]) /\ a[i] = b[i]

\* check_pdfs_sampling comparing the lengths of the x arrays only
check_pdfs_sampling_lengths(ps) ==
    \A k \in 2..Len(ps) : Len(ps[k].x) = Len(ps[1].x)

\* value_arrays.check_pdfs_sampling: TRUE when it does not raise
check_pdfs_sampling(ps) ==
    \A k \in 2..Len(ps) : array_equal(ps[k].x, ps[1].x)

\* np.linspace(start, stop, num)
linspace(start, stop, num) ==
    [k \in 1..num |->
        IF k = num /\ num > 1 THEN stop
        ELSE FAdd(start, FMul(I(k - 1), FDiv(FSub(stop, start), I(num - 1))))]

\* np.convolve(a, v, mode="full")
convolve(a, v) ==
    [k \in 1..(Len(a) + Len(v) - 1) |->
        Sum([i \in 1..Len(a) |->
                IF k + 1 - i \in 1..Len(v)
                THEN FMul(a[i], v[k + 1 - i]) ELSE I(0)])]

Failed(status, ps) == [status |-> status, obj |-> NoPDF, pdfs |-> ps]

\* add_variables(pdf1, pdf2)
add_variables(pdf1, pdf2) ==
    LET ps == <<pdf1, pdf2>>
        cu == units_call("check_units", ps)
        nxx == 2 * Len(pdf1.x) - 1
        xx == linspace(FAdd(pdf1.x[1], pdf1.x[1]),
                       FAdd(pdf1.x[Len(pdf1.x)], pdf1.x[Len(pdf1.x)]), nxx)
        pxx == convolve(pdf1.px, pdf2.px)
        r == PDF__init__(xx, pxx, TRUE, None, None, cu.value)
    IN  IF ~check_pdfs_sampling(ps) THEN Failed("DomainMismatch", ps)
        ELSE IF cu.status # "ok" THEN Failed(cu.status, ps)
        ELSE [status |-> r.status, obj |-> r.obj, pdfs |-> ps]

\* subtract_variables(pdf1, pdf2, limit_positive)
subtract_variables(pdf1, pdf2, limit_positive) ==
    LET ps == <<pdf1, pdf2>>
        cu == units_call("check_units", ps)
        nxx == 2 * Len(pdf1.x) - 1
        xx == linspace(FSub(pdf1.x[1], pdf1.x[Len(pdf1.x)]),
                       FSub(pdf1.x[Len(pdf1.x)], pdf1.x[1]), nxx)
        neg == negate_variable(pdf2)
        after == <<pdf1, [pdf2 EXCEPT !.px = neg.px_in]>>
        conv == convolve(pdf1.px, neg.obj.px)
        pxx == [k \in 1..Len(conv) |->
                   IF limit_positive /\ FLt(xx[k], I(0)) THEN I(0)
                   ELSE conv[k]]
        r == PDF__init__(xx, pxx, TRUE, None, None, cu.value)
    IN  IF ~check_pdfs_sampling(ps) THEN Failed("DomainMismatch", ps)
        ELSE IF cu.status # "ok" THEN Failed(cu.status, ps)
        ELSE IF neg.status # "ok" THEN Failed(neg.status, after)
        ELSE [status |-> r.status, obj |-> r.obj, pdfs |-> after]

\* px *= pdf.px  and  px += pdf.px  over pdfs[1:], from a copy of pdfs[0].px
RECURSIVE fold_px(_, _, _, _)
fold_px(ps, k, px, times) ==
    IF k > Len(ps) THEN px
    ELSE fold_px(ps, k + 1,
                 [i \in 1..Len(px) |->
                     IF times THEN FMul(px[i], ps[k].px[i])
                     ELSE FAdd(px[i], ps[k].px[i])],
                 times)

\* combine_variables(pdfs)
combine_variables(ps) ==
    LET cu == units_call("check_units", ps)
        px == fold_px(ps, 2, ps[1].px, TRUE)
        r == PDF__init__(ps[1].x, px, TRUE, None, None, cu.value)
    IN  IF ~check_pdfs_sampling(ps) THEN Failed("DomainMismatch", ps)
        ELSE IF cu.status # "ok" THEN Failed(cu.status, ps)
        ELSE [status |-> r.status, obj |-> r.obj, pdfs |-> ps]

\* merge_variables(pdfs)
merge_variables(ps) ==
    LET cu == units_call("check_units", ps)
        px == fold_px(ps, 2, ps[1].px, FALSE)
        r == PDF__init__(ps[1].x, px, TRUE, None, None, cu.value)
    IN  IF ~check_pdfs_sampling(ps) THEN Failed("DomainMismatch", ps)
        ELSE IF cu.status # "ok" THEN Failed(cu.status, ps)
        ELSE [status |-> r.status, obj |-> r.obj, pdfs |-> ps]

-----------------------------------------------------------------------------
(* The caller                                                              *)

SeqsUpTo(S, n) == UNION {[1..k -> S] : k \in 1..n}

XArrays == {[i \in 1..Len(s) |-> I(s[i])] : s \in SeqsUpTo(0..MaxX, MaxLen)}

PxArrays == {[i \in 1..Len(s) |-> I(s[i])] : s \in SeqsUpTo(-1..MaxPx, MaxLen)}

NoCall ==
    [op |-> "none", status |-> "none", obj |-> NoPDF, normalize |-> FALSE,
     unit_out |-> None, limit_positive |-> FALSE,
     before |-> [arrays |-> <<>>, pdfs |-> <<>>]]

Call(op, status, obj, normalize, unit_out) ==
    [op |-> op, status |-> status, obj |-> obj, normalize |-> normalize,
     unit_out |-> unit_out, limit_positive |-> FALSE,
     before |-> [arrays |-> arrays, pdfs |-> pdfs]]

Init ==
    /\ arrays \in [x : XArrays, px : PxArrays]
    /\ pdfs = <<>>
    /\ ret = NoCall
    /\ calls = 0

\* pdf = PDF(x, px, normalize_area=normalize, unit=unit), on the caller's
\* arrays; self.px is the caller's px array, so what __init__ writes to it
\* stays written, also when validation then raises
Construct ==
    /\ calls = 0
    /\ \E normalize \in BOOLEAN, unit \in {None, "m"} :
         LET r == PDF__init__(arrays.x, arrays.px, normalize, None, None, unit)
         IN  /\ arrays' = [arrays EXCEPT !.px = r.px]
             /\ pdfs' = IF r.status = "ok" THEN <<r.obj>> ELSE <<>>
             /\ ret' = Call("PDF", r.status, r.obj, normalize, None)
    /\ calls' = calls + 1

\* The px buffer of the caller's PDF is the caller's px array itself.
\* neg = negate_variable(pdf)
Negate ==
    /\ pdfs # <<>>
    /\ calls < MaxCalls
    /\ LET r == negate_variable(pdfs[1])
       IN  /\ arrays' = [arrays EXCEPT !.px = r.px_in]
           /\ pdfs' = <<[pdfs[1] EXCEPT !.px = r.px_in]>>
           /\ ret' = Call("negate_variable", r.status, r.obj, TRUE, None)
    /\ calls' = calls + 1

\* scaled = scale_pdf_by_units(pdf, unit_out)
Scale ==
    /\ pdfs # <<>>
    /\ calls < MaxCalls
    /\ \E unit_out \in {None, "km", "y"} :
         LET r == scale_pdf_by_units(pdfs[1], unit_out)
         IN  /\ arrays' = [arrays EXCEPT !.px = r.px_in]
             /\ pdfs' = <<[pdfs[1] EXCEPT !.px = r.px_in]>>
             /\ ret' = Call("scale_pdf_by_units", r.status, r.obj, TRUE,
                            unit_out)
    /\ calls' = calls + 1

Next == Construct \/ Negate \/ Scale

Spec == Init /\ [][Next]_vars

-----------------------------------------------------------------------------
(* Properties of construction                                              *)

StrictlyIncreasing(x) == \A i \in 1..(Len(x) - 1) : FLt(x[i], x[i + 1])

NonDecreasing(x) == \A i \in 1..(Len(x) - 1) : FLe(x[i], x[i + 1])

\* 10^k > q, for naturals q and k, without forming 10^k
RECURSIVE TenPowExceeds(_, _)
TenPowExceeds(q, k) ==
    IF q = 0 THEN TRUE
    ELSE IF k = 0 THEN FALSE
    ELSE TenPowExceeds(q \div 10, k - 1)

\* v > 10^-k, for a float v >= 0
ExceedsTenPowMinus(v, k) ==
    \/ v = Inf
    \/ IsFinite(v) /\ v.n > 0 /\ TenPowExceeds(v.d \div v.n, k)

Constructed == ret.op = "PDF" /\ ret.status = "ok"

\* the caller's arrays as they were handed to the last call
x_in == ret.before.arrays.x
px_in == ret.before.arrays.px

\* C1: construction fails whenever len(x) != len(px) or x is not strictly
\* increasing; every constructed PDF has len(x) = len(px) and x[i] < x[i+1].
C1_StrictDomain ==
    ret.op = "PDF" =>
        /\ (Len(x_in) # Len(px_in) \/ ~StrictlyIncreasing(x_in))
              => ret.status # "ok"
        /\ ret.status = "ok"
              => /\ Len(ret.obj.x) = Len(ret.obj.px)
                 /\ StrictlyIncreasing(ret.obj.x)

\* C2: construction fails whenever an input density is negative, with and
\* without normalisation.
C2_NegativeDensityRejected ==
    (ret.op = "PDF" /\ HasNegative(px_in)) => ret.status # "ok"

\* C3: construction without normalisation fails whenever the trapezoidal
\* area differs from 1 by more than 10^-10.
C3_UnnormalizedAreaRejected ==
    (/\ ret.op = "PDF"
     /\ ~ret.normalize
     /\ Len(x_in) = Len(px_in)
     /\ ExceedsTenPowMinus(FAbs(FSub(I(1), trapezoid(px_in, x_in))),
                           RISER_PRECISION))
        => ret.status # "ok"

\* C4: a PDF returned by construction with normalisation has finite
\* non-negative px and area 1; when the raw density has zero area the
\* construction fails instead of returning a PDF.
C4_NormalizedOrFails ==
    (ret.op = "PDF" /\ ret.normalize /\ Len(x_in) = Len(px_in)) =>
        /\ ret.status = "ok" =>
              /\ \A i \in 1..Len(ret.obj.px) :
                    IsFinite(ret.obj.px[i]) /\ ret.obj.px[i].n >= 0
              /\ trapezoid(ret.obj.px, ret.obj.x) = I(1)
        /\ trapezoid(px_in, x_in) = I(0) => ret.status # "ok"

\* C5: the CDF Px of every constructed PDF has the length of x, is
\* non-decreasing, starts at 0 and ends at 1.
C5_CdfShape ==
    Constructed =>
        /\ Len(ret.obj.Px) = Len(ret.obj.x)
        /\ NonDecreasing(ret.obj.Px)
        /\ ret.obj.Px[1] = I(0)
        /\ ret.obj.Px[Len(ret.obj.Px)] = I(1)

\* C6: no call changes a caller-owned array or the x and px of an input PDF.
C6_InputsUnchanged ==
    ret.op # "none" =>
        /\ arrays = ret.before.arrays
        /\ \A i \in 1..Len(ret.before.pdfs) :
              /\ pdfs[i].x = ret.before.pdfs[i].x
              /\ pdfs[i].px = ret.before.pdfs[i].px

-----------------------------------------------------------------------------
(* The algebra on PDFs the caller has already constructed                  *)

\* the PDFs the caller holds: uniform and ramp densities, with and without a
\* unit, over three domains: two of equal length, two with equal start
AlgebraDomains ==
    {<<I(0), I(1)>>, <<I(1), I(2)>>, <<I(0), I(1), I(2)>>}

AlgebraDensities(x) ==
    {[i \in 1..Len(x) |-> I(1)], [i \in 1..Len(x) |-> I(i - 1)]}

AlgebraUnits == {None, "m", "km"}

AlgebraPDFs ==
    {PDF__init__(x, px, TRUE, None, None, unit).obj :
        x \in AlgebraDomains, px \in UNION {AlgebraDensities(d) : d \in AlgebraDomains},
        unit \in AlgebraUnits} \ {NoPDF}

InitAlgebra ==
    /\ arrays = [x |-> <<>>, px |-> <<>>]
    /\ pdfs \in UNION {[1..k -> AlgebraPDFs] : k \in 2..MaxList}
    /\ ret = NoCall
    /\ calls = 0

\* the input PDFs after the call; the caller's raw arrays are not involved
Returned(r) ==
    /\ pdfs' = [k \in 1..Len(pdfs) |-> IF k <= Len(r.pdfs) THEN r.pdfs[k]
                                        ELSE pdfs[k]]
    /\ UNCHANGED <<arrays, calls>>

\* add_variables(pdfs[0], pdfs[1])
Add ==
    /\ LET r == add_variables(pdfs[1], pdfs[2])
       IN  /\ ret' = Call("add_variables", r.status, r.obj, TRUE, None)
           /\ Returned(r)

\* subtract_variables(pdfs[0], pdfs[1], limit_positive)
Subtract ==
    /\ \E limit_positive \in BOOLEAN :
         LET r == subtract_variables(pdfs[1], pdfs[2], limit_positive)
         IN  /\ ret' = [Call("subtract_variables", r.status, r.obj, TRUE, None)
                           EXCEPT !.limit_positive = limit_positive]
             /\ Returned(r)

\* combine_variables(pdfs)
Combine ==
    /\ LET r == combine_variables(pdfs)
       IN  /\ ret' = Call("combine_variables", r.status, r.obj, TRUE, None)
           /\ Returned(r)

\* merge_variables(pdfs)
Merge ==
    /\ LET r == merge_variables(pdfs)
       IN  /\ ret' = Call("merge_variables", r.status, r.obj, TRUE, None)
           /\ Returned(r)

NextAlgebra == Add \/ Subtract \/ Combine \/ Merge

SpecAlgebra == InitAlgebra /\ [][NextAlgebra]_vars

-----------------------------------------------------------------------------
(* Properties of the algebra                                               *)

AlgebraOps ==
    {"add_variables", "subtract_variables", "combine_variables",
     "merge_variables"}

\* the PDFs handed to the last algebra call
Inputs ==
    IF ret.op \in {"add_variables", "subtract_variables"}
    THEN SubSeq(ret.before.pdfs, 1, 2)
    ELSE ret.before.pdfs

AllSameX(ps) == \A i, j \in 1..Len(ps) : ps[i].x = ps[j].x

AllSameUnit(ps) == \A i, j \in 1..Len(ps) : ps[i].unit = ps[j].unit

\* C7: Add, Subtract, Combine and Merge fail with a domain-mismatch error,
\* returning no PDF, whenever the x arrays of their inputs are not all
\* identical, and get past the domain check only when they all are.
C7_DomainMismatch ==
    ret.op \in AlgebraOps =>
        /\ ~AllSameX(Inputs) => (ret.status = "DomainMismatch" /\ ret.obj = NoPDF)
        /\ ret.status # "DomainMismatch" => AllSameX(Inputs)

\* a Merge of three PDFs rejected because only the last one differs in x
C7_Witness ==
    /\ ret.op = "merge_variables"
    /\ ret.status = "DomainMismatch"
    /\ Len(Inputs) = 3
    /\ Inputs[1].x = Inputs[2].x
    /\ Len(Inputs[3].x) = Len(Inputs[1].x)

\* C8: the result of Add, Subtract, Combine and Merge carries the inputs'
\* unit when all inputs carry the identical unit, and no unit otherwise.
C8_UnitPropagation ==
    (ret.op \in AlgebraOps /\ AllSameX(Inputs)) =>
        /\ ret.status = "ok"
        /\ ret.obj.unit = IF AllSameUnit(Inputs) THEN Inputs[1].unit ELSE None

\* sum over i + j = k of a[i] * b[j], indices from 0
ConvolutionSum(a, b, k) ==
    Sum([i \in 1..Len(a) |->
            IF k - (i - 1) \in 0..(Len(b) - 1)
            THEN FMul(a[i], b[k - (i - 1) + 1]) ELSE I(0)])

\* p[k] is proportional to q[k], for k in the index set K
Proportional(p, q, K) ==
    \A k, l \in K : FMul(p[k], q[l]) = FMul(p[l], q[k])

\* C9: Add(A, B) on a shared domain of n samples over [min, max] returns a
\* PDF of 2n-1 samples from 2*min to 2*max whose density is proportional to
\* the full discrete convolution of A.px and B.px.
C9_AddIsConvolution ==
    (ret.op = "add_variables" /\ AllSameX(Inputs)) =>
        LET A == Inputs[1]
            B == Inputs[2]
            n == Len(A.x)
            out == ret.obj
        IN  /\ ret.status = "ok"
            /\ Len(out.x) = 2 * n - 1
            /\ Len(out.px) = 2 * n - 1
            /\ out.x[1] = FMul(I(2), A.x[1])
            /\ out.x[2 * n - 1] = FMul(I(2), A.x[n])
            /\ Proportional(out.px,
                            [k \in 1..(2 * n - 1) |->
                                ConvolutionSum(A.px, B.px, k - 1)],
                            1..(2 * n - 1))

\* C10: Subtract(A, B) returns a PDF of 2n-1 samples on [min-max, max-min];
\* with clamping its density is 0 wherever x < 0, without clamping the
\* density at x < 0 is the convolution of A.px with the mirrored B.px.
C10_SubtractClamps ==
    (ret.op = "subtract_variables" /\ AllSameX(Inputs)) =>
        LET A == Inputs[1]
            B == Inputs[2]
            n == Len(A.x)
            out == ret.obj
            negative == {k \in 1..(2 * n - 1) : FLt(out.x[k], I(0))}
        IN  /\ ret.status = "ok"
            /\ Len(out.x) = 2 * n - 1
            /\ Len(out.px) = 2 * n - 1
            /\ out.x[1] = FSub(A.x[1], A.x[n])
            /\ out.x[2 * n - 1] = FSub(A.x[n], A.x[1])
            /\ ret.limit_positive => \A k \in negative : out.px[k] = I(0)
            /\ ~ret.limit_positive =>
                  Proportional(out.px,
                               [k \in 1..(2 * n - 1) |->
                                   ConvolutionSum(A.px, Reverse(B.px), k - 1)],
                               1..(2 * n - 1))

\* C11: Subtract(A, A) without clamping is symmetric about zero:
\* x[k] = -x[2n-2-k] and px[k] = px[2n-2-k] for every output index k.
C11_SelfSubtractSymmetric ==
    (/\ ret.op = "subtract_variables"
     /\ ~ret.limit_positive
     /\ Inputs[1] = Inputs[2]) =>
        LET n == Len(Inputs[1].x)
            out == ret.obj
        IN  /\ ret.status = "ok"
            /\ Len(out.x) = 2 * n - 1
            /\ Len(out.px) = 2 * n - 1
            /\ \A k \in 1..(2 * n - 1) :
                  /\ out.x[k] = FNeg(out.x[2 * n - k])
                  /\ out.px[k] = out.px[2 * n - k]

\* the elementwise sum of the densities of ps
SumOfDensities(ps) ==
    [i \in 1..Len(ps[1].px) |-> Sum([k \in 1..Len(ps) |-> ps[k].px[i]])]

\* C12: Merge(list) returns a PDF on the shared domain whose density at each
\* sample is proportional to the elementwise sum of the input densities, in
\* whatever order the inputs are listed.
C12_MergeIsSum ==
    (ret.op = "merge_variables" /\ AllSameX(Inputs)) =>
        /\ ret.status = "ok"
        /\ ret.obj.x = Inputs[1].x
        /\ Len(ret.obj.px) = Len(Inputs[1].x)
        /\ Proportional(ret.obj.px, SumOfDensities(Inputs),
                        1..Len(Inputs[1].x))

-----------------------------------------------------------------------------
(* precision.fix_precision and value_arrays.create_precise_value_array     *)

\* d with up to k factors p divided out
RECURSIVE StripFactor(_, _, _)
StripFactor(d, p, k) ==
    IF k = 0 \/ d % p # 0 THEN d ELSE StripFactor(d \div p, p, k - 1)

\* the float v is a whole multiple of 10^-k
HasDecimals(v, k) == StripFactor(StripFactor(v.d, 2, k), 5, k) = 1

RECURSIVE TenPow(_)
TenPow(k) == IF k = 0 THEN 1 ELSE 10 * TenPow(k - 1)

\* floor and ceiling of a finite float
Floor(v) == v.n \div v.d

Ceil(v) == -((-v.n) \div v.d)

\* np.round(v): to the nearest integer, halves to the even one
RoundHalfEven(v) ==
    LET f == Floor(v)
        twice == FSub(FMul(I(2), v), I(2 * f))
    IN  IF FLt(twice, I(1)) THEN f
        ELSE IF FGt(twice, I(1)) THEN f + 1
        ELSE IF f % 2 = 0 THEN f ELSE f + 1

\* precision.fix_precision: np.round(x, RISER_PRECISION).  A value that is a
\* whole multiple of 10^-RISER_PRECISION is returned as it is.
fix_precision(v) ==
    IF ~IsFinite(v) \/ HasDecimals(v, RISER_PRECISION) THEN v
    ELSE F(RoundHalfEven(FMul(v, I(TenPow(RISER_PRECISION)))),
           TenPow(RISER_PRECISION))

\* np.arange(start, stop, step): ceil((stop - start) / step) values from
\* start in steps of step, none when that count is not positive
arange(start, stop, step) ==
    IF ~IsFinite(start) \/ ~IsFinite(stop) \/ ~IsFinite(step)
    THEN [status |-> "ValueError", values |-> <<>>]
    ELSE IF step = I(0)
    THEN [status |-> "ZeroDivisionError", values |-> <<>>]
    ELSE LET len == Ceil(FDiv(FSub(stop, start), step))
         IN  [status |-> "ok",
              values |-> [i \in 1..len |-> FAdd(start, FMul(I(i - 1), step))]]

\* create_precise_value_array with np.arange(xmin, xmax, dx)
create_precise_value_array_open(xmin, xmax, dx) ==
    LET dx1 == fix_precision(dx)
        a == arange(xmin, xmax, dx1)
    IN  [status |-> a.status,
         values |-> [i \in 1..Len(a.values) |-> fix_precision(a.values[i])]]

\* value_arrays.create_precise_value_array
create_precise_value_array(xmin, xmax, dx) ==
    LET dx1 == fix_precision(dx)
        a == arange(xmin, FAdd(xmax, dx1), dx1)
    IN  [status |-> a.status,
         values |-> [i \in 1..Len(a.values) |-> fix_precision(a.values[i])]]

\* what a call on scalars did: its arguments, its outcome, what it returned
CallValue(op, status, value, args) ==
    [op |-> op, status |-> status, obj |-> NoPDF, value |-> value,
     args |-> args, before |-> [arrays |-> arrays, pdfs |-> pdfs]]

\* the limits and steps the caller asks a value array for
GridLimits == {F(k, 2) : k \in -2..4}

GridSteps == {F(k, 4) : k \in 0..4}

InitGrid ==
    /\ arrays = [x |-> <<>>, px |-> <<>>]
    /\ pdfs = <<>>
    /\ ret = NoCall
    /\ calls = 0

\* x = create_precise_value_array(xmin, xmax, dx)
ValueArray ==
    /\ \E xmin \in GridLimits, xmax \in GridLimits, dx \in GridSteps :
         LET r == create_precise_value_array(xmin, xmax, dx)
         IN  ret' = CallValue("create_precise_value_array", r.status, r.values,
                              [xmin |-> xmin, xmax |-> xmax, dx |-> dx])
    /\ UNCHANGED <<arrays, pdfs, calls>>

NextGrid == ValueArray

SpecGrid == InitGrid /\ [][NextGrid]_vars

\* a value array was asked for with dx > 0 and xmin <= xmax
GridAsked ==
    /\ ret.op = "create_precise_value_array"
    /\ FGt(ret.args.dx, I(0))
    /\ FLe(ret.args.xmin, ret.args.xmax)

\* v starts at xmin and advances by dx
EvenlySpacedFrom(v, xmin, dx) ==
    /\ Len(v) >= 1
    /\ v[1] = xmin
    /\ \A i \in 1..(Len(v) - 1) : FSub(v[i + 1], v[i]) = dx

-----------------------------------------------------------------------------
(* variable_operations.divide_variables                                    *)

\* the methods the class ProbabilityDensityFunction defines
PDF_namespace ==
    {"__init__", "__check_array_lengths__", "__compute_area__",
     "__normalize_area__", "validate", "__compute_cdf__",
     "compute_cdf_at_value", "compute_probability", "inverse_transform",
     "__len__", "__str__"}

\* pdf.<name>: "ok" when the class defines the method, else the
\* AttributeError the lookup raises
PDF_getattr(name) ==
    IF name \in PDF_namespace THEN "ok" ELSE "AttributeError"

\* np.min([a, b]): nan when either is nan
np_min(a, b) ==
    IF IsNaN(a) \/ IsNaN(b) THEN NaN ELSE IF FLt(b, a) THEN b ELSE a

\* divide_variables(numerator, denominator, max_quotient, dq).  The loop over
\* the quotient values looks up numerator.pdf_at_value in its first pass.
\* With no quotient value the loop is skipped and PDF(q, pq) is built from
\* empty arrays: they pass validate(), and cumulative_trapezoid raises
\* ValueError for want of a point.
divide_variables(numerator, denominator, max_quotient, dq) ==
    LET numer_min == numerator.x[1]
        numer_max == numerator.x[Len(numerator.x)]
        denom_min == denominator.x[1]
        denom_max == denominator.x[Len(denominator.x)]
        quot_min == FDiv(numer_min, denom_max)
        quot_max == np_min(max_quotient, FDiv(numer_max, denom_min))
        q == create_precise_value_array(quot_min, quot_max, dq)
        nq == Len(q.values)
    IN  IF q.status # "ok"
        THEN [status |-> q.status, obj |-> NoPDF, q |-> <<>>]
        ELSE IF nq > 0 /\ PDF_getattr("pdf_at_value") # "ok"
        THEN [status |-> PDF_getattr("pdf_at_value"), obj |-> NoPDF,
              q |-> q.values]
        ELSE [status |-> "ValueError", obj |-> NoPDF, q |-> q.values]

\* the quotient limits and steps the caller asks for
MaxQuotients == {F(k, 4) : k \in 0..8}

QuotientSteps == {F(1, 4), F(1, 2), I(1)}

InitDivide ==
    /\ arrays = [x |-> <<>>, px |-> <<>>]
    /\ pdfs \in [1..2 -> AlgebraPDFs]
    /\ ret = NoCall
    /\ calls = 0

\* quot = divide_variables(pdfs[0], pdfs[1], max_quotient, dq)
Divide ==
    /\ calls = 0
    /\ \E max_quotient \in MaxQuotients, dq \in QuotientSteps :
         LET r == divide_variables(pdfs[1], pdfs[2], max_quotient, dq)
         IN  ret' = [CallValue("divide_variables", r.status, r.q,
                               [max_quotient |-> max_quotient, dq |-> dq])
                        EXCEPT !.obj = r.obj]
    /\ calls' = calls + 1
    /\ UNCHANGED <<arrays, pdfs>>

NextDivide == Divide

SpecDivide == InitDivide /\ [][NextDivide]_vars

\* the smallest ratio numerator / denominator of the last Divide
MinRatio ==
    FDiv(ret.before.pdfs[1].x[1],
         ret.before.pdfs[2].x[Len(ret.before.pdfs[2].x)])

\* C13: Divide fails with an invalid-range error (a ValueError), returning
\* no PDF, whenever maxQuotient is smaller than the minimum achievable ratio
\* numerator.x.min / denominator.x.max.
C13_DivideInvalidRange ==
    (ret.op = "divide_variables" /\ FLt(ret.args.max_quotient, MinRatio)) =>
        /\ ret.status = "ValueError"
        /\ ret.obj = NoPDF

-----------------------------------------------------------------------------
(* interpolation.py and the sampling parameters of value_arrays.py         *)

\* np.interp for one value v: left and right of the sample points the given
\* constants, else linear between the last sample point xp[j] <= v (found by
\* stepping over the sample points while they are <= v) and the next one,
\* and fp[j] itself when v = xp[j]
interp_value(v, xp, fp, left, right) ==
    IF IsNaN(v) THEN v
    ELSE IF FGt(v, xp[Len(xp)]) THEN right
    ELSE IF FLt(v, xp[1]) THEN left
    ELSE LET j == CHOOSE j \in 1..Len(xp) :
                     /\ \A k \in 2..j : FLe(xp[k], v)
                     /\ j = Len(xp) \/ ~FLe(xp[j + 1], v)
         IN  IF j = Len(xp) \/ xp[j] = v THEN fp[j]
             ELSE LET slope == FDiv(FSub(fp[j + 1], fp[j]),
                                    FSub(xp[j + 1], xp[j]))
                      r1 == FAdd(FMul(slope, FSub(v, xp[j])), fp[j])
                      r2 == FAdd(FMul(slope, FSub(v, xp[j + 1])), fp[j + 1])
                  IN  IF ~IsNaN(r1) THEN r1
                      ELSE IF ~IsNaN(r2) THEN r2
                      ELSE IF fp[j] = fp[j + 1] /\ ~IsNaN(fp[j]) THEN fp[j]
                      ELSE r2

\* np.interp(x, xp, fp, left, right)
interp(x, xp, fp, left, right) ==
    [i \in 1..Len(x) |-> interp_value(x[i], xp, fp, left, right)]

\* the k-th smallest value of s
KthSmallest(s, k) ==
    LET i == CHOOSE i \in 1..Len(s) :
                 /\ Cardinality({j \in 1..Len(s) : FLt(s[j], s[i])}) < k
                 /\ Cardinality({j \in 1..Len(s) : FLe(s[j], s[i])}) >= k
    IN  s[i]

\* np.median: nan for an empty array
median(s) ==
    IF Len(s) = 0 THEN NaN
    ELSE IF Len(s) % 2 = 1 THEN KthSmallest(s, (Len(s) + 1) \div 2)
    ELSE FDiv(FAdd(KthSmallest(s, Len(s) \div 2),
                   KthSmallest(s, Len(s) \div 2 + 1)), I(2))

\* x.min() and x.max()
array_min(s) == KthSmallest(s, 1)

array_max(s) == KthSmallest(s, Len(s))

\* sample_spacing_from_pdf; the standard deviation only decides a warning
sample_spacing_from_pdf(pdf) == fix_precision(median(Diff(pdf.x)))

\* value_array_params_from_pdfs: the loop over pdfs[1:], from pdfs[0]
RECURSIVE value_array_params_from(_, _, _)
value_array_params_from(ps, k, acc) ==
    IF k > Len(ps) THEN acc
    ELSE LET xi_min == array_min(ps[k].x)
             xi_max == array_max(ps[k].x)
             dxi == sample_spacing_from_pdf(ps[k])
         IN  value_array_params_from(ps, k + 1,
                 [xmin |-> IF FLt(xi_min, acc.xmin) THEN xi_min ELSE acc.xmin,
                  xmax |-> IF FGt(xi_max, acc.xmax) THEN xi_max ELSE acc.xmax,
                  dx |-> IF FLt(dxi, acc.dx) THEN dxi ELSE acc.dx])

value_array_params_from_pdfs(ps) ==
    value_array_params_from(ps, 2,
        [xmin |-> array_min(ps[1].x), xmax |-> array_max(ps[1].x),
         dx |-> sample_spacing_from_pdf(ps[1])])

\* Op(v), with v evaluated once
With(v, Op(_)) == CHOOSE r \in {Op(w) : w \in {v}} : TRUE

\* interpolate_pdf: PDF(x, px_resamp, **metadata), normalize_area defaulted
interpolate_pdf(pdf, x) ==
    With(interp(x, pdf.x, pdf.px, I(0), I(0)),
         LAMBDA px_resamp :
            LET r == PDF__init__(x, px_resamp, TRUE, pdf.name,
                                 pdf.variable_type, pdf.unit)
            IN  [status |-> r.status, obj |-> r.obj])

\* the list of resampled PDFs, or the first exception raised for one of them
resample_all(ps, x) ==
    With([k \in 1..Len(ps) |-> interpolate_pdf(ps[k], x)],
         LAMBDA rs :
            LET bad == {k \in 1..Len(ps) : rs[k].status # "ok"}
            IN  IF bad # {}
                THEN [status |->
                          rs[CHOOSE k \in bad : \A l \in bad : k <= l].status,
                      pdfs |-> <<>>]
                ELSE [status |-> "ok",
                      pdfs |-> [k \in 1..Len(ps) |-> rs[k].obj]])

\* interpolate_pdfs
interpolate_pdfs(ps) ==
    With(value_array_params_from_pdfs(ps),
         LAMBDA params :
            With(create_precise_value_array(params.xmin, params.xmax,
                                            params.dx),
                 LAMBDA x :
                    IF x.status # "ok"
                    THEN [status |-> x.status, pdfs |-> <<>>]
                    ELSE resample_all(ps, x.values)))

\* the PDFs the caller resamples: every PDF that PDF(x, px, normalize_area)
\* constructs from these arrays, regular and irregular, of one to three
\* samples
InterpDomains ==
    {<<I(0), I(1)>>, <<I(0), I(2)>>, <<I(1), I(3)>>, <<I(0), I(1), I(2)>>,
     <<I(0), I(1), I(3)>>, <<I(1)>>, <<I(0), I(0), I(1)>>}

InterpDensities(x) ==
    {[i \in 1..Len(x) |-> I(1)], [i \in 1..Len(x) |-> I(i - 1)],
     [i \in 1..Len(x) |-> IF i = 2 THEN I(1) ELSE I(0)]}

InterpPDFs ==
    {PDF__init__(x, px, normalize, None, None, None).obj :
        x \in InterpDomains,
        px \in UNION {InterpDensities(d) : d \in InterpDomains},
        normalize \in BOOLEAN} \ {NoPDF}

\* a value array the caller resamples onto, next to the PDF's own
InterpGrids == {<<I(0), I(1), I(2)>>}

InitInterp ==
    /\ arrays = [x |-> <<>>, px |-> <<>>]
    /\ pdfs \in [1..1 -> InterpPDFs] \cup [1..2 -> InterpPDFs]
    /\ ret = NoCall
    /\ calls = 0

\* pdfs[0] = interpolate_pdf(pdfs[0], x)
Interpolate ==
    /\ calls < MaxCalls
    /\ \E x \in {pdfs[1].x} \cup InterpGrids :
         \E r \in {interpolate_pdf(pdfs[1], x)} :
             /\ ret' = [CallValue("interpolate_pdf", r.status, <<>>,
                                  [x |-> x]) EXCEPT !.obj = r.obj]
             /\ pdfs' = IF r.status = "ok" THEN [pdfs EXCEPT ![1] = r.obj]
                        ELSE pdfs
    /\ calls' = calls + 1
    /\ UNCHANGED arrays

\* pdfs = interpolate_pdfs(pdfs)
InterpolateSet ==
    /\ calls < MaxCalls
    /\ \E r \in {interpolate_pdfs(pdfs)} :
           /\ ret' = CallValue("interpolate_pdfs", r.status, r.pdfs,
                               [n |-> Len(pdfs)])
           /\ pdfs' = IF r.status = "ok" THEN r.pdfs ELSE pdfs
    /\ calls' = calls + 1
    /\ UNCHANGED arrays

NextInterp == Interpolate \/ InterpolateSet

SpecInterp == InitInterp /\ [][NextInterp]_vars

\* C15: interpolate(p, p.x) returns a PDF with the same x and the same px as
\* p, for every PDF p, the result of an earlier interpolation included.
C15_ResampleIdempotent ==
    (ret.op = "interpolate_pdf" /\ ret.args.x = ret.before.pdfs[1].x) =>
        /\ ret.status = "ok"
        /\ ret.obj.x = ret.before.pdfs[1].x
        /\ ret.obj.px = ret.before.pdfs[1].px

\* the smallest of the values of the non-empty sequence s
SmallestOf(s) == KthSmallest(s, 1)

\* C16: interpolate-set returns one PDF per input, in input order, all on
\* one x array that runs from the smallest input x.min to at least the
\* largest input x.max in steps of the smallest representative spacing of
\* the inputs; the returned PDFs pass the common-domain check of the algebra.
C16_CommonDomain ==
    ret.op = "interpolate_pdfs" =>
        LET in == ret.before.pdfs
            out == ret.value
            x == out[1].x
            spacing == SmallestOf([k \in 1..Len(in) |-> median(Diff(in[k].x))])
        IN  /\ ret.status = "ok"
            /\ Len(out) = Len(in)
            /\ AllSameX(out)
            /\ \A k \in 1..Len(in) :
                  Proportional(out[k].px,
                               interp(x, in[k].x, in[k].px, I(0), I(0)),
                               1..Len(x))
            /\ \A k \in 1..Len(in) :
                  FLe(x[1], in[k].x[1]) /\ FLe(in[k].x[Len(in[k].x)], x[Len(x)])
            /\ \E k \in 1..Len(in) : x[1] = in[k].x[1]
            /\ \A i \in 1..(Len(x) - 1) : FSub(x[i + 1], x[i]) = spacing
            /\ check_pdfs_sampling(out)

-----------------------------------------------------------------------------
(* sampling/filtering.py                                                   *)

\* scipy.signal.windows.gaussian(width, width/4): exp(-(n/sigma)^2 / 2) at
\* the sample offsets n from the centre, here to one decimal place
gaussian(width) ==
    LET tenths ==
            CASE width = 1 -> <<10>>
              [] width = 2 -> <<6, 6>>
              [] width = 3 -> <<4, 10, 4>>
              [] width = 4 -> <<3, 9, 9, 3>>
              [] width = 5 -> <<3, 7, 10, 7, 3>>
              [] width = 6 -> <<2, 6, 9, 9, 6, 2>>
              [] width = 7 -> <<2, 5, 8, 10, 8, 5, 2>>
    IN  [i \in 1..width |-> F(tenths[i], 10)]

\* MeanFilter(width).h and GaussFilter(width).h, after FIRFilter.__check_gain__
\* has scaled the sum to 1
filter_h(filter_type, width) ==
    LET h == IF filter_type = "mean" THEN [i \in 1..width |-> I(1)]
             ELSE gaussian(width)
    IN  DivideBy(h, Sum(h))

\* np.pad(px, (w2, w2), 'constant') and np.pad(px, (w2, w2), 'edge')
pad(px, w2, padding) ==
    [i \in 1..(Len(px) + 2 * w2) |->
        IF i <= w2 THEN (IF padding = "edge" THEN px[1] ELSE I(0))
        ELSE IF i > w2 + Len(px)
             THEN (IF padding = "edge" THEN px[Len(px)] ELSE I(0))
        ELSE px[i - w2]]

\* scipy.signal.convolve(a, v, 'same'): the centred len(a) values of the
\* full convolution
convolve_same(a, v) ==
    LET full == convolve(a, v)
        start == (Len(v) - 1) \div 2
    IN  [k \in 1..Len(a) |-> full[k + start]]

\* px[w2:-w2]; the slice stops at index 0 when w2 = 0
trim(px, w2) ==
    IF w2 = 0 THEN <<>> ELSE SubSeq(px, w2 + 1, Len(px) - w2)

\* np.sum(a * h) under numpy broadcasting: a of one element is stretched
SumProduct(a, h) ==
    Sum([j \in 1..Len(h) |-> FMul(IF Len(a) = 1 THEN a[1] ELSE a[j], h[j])])

\* the passes i, i+1, ... w2-1 of the loop that rewrites the edge values
RECURSIVE preserve_edges_from(_, _, _, _, _)
preserve_edges_from(px, pdf_px, filter_type, w2, i) ==
    IF i >= w2 THEN [status |-> "ok", px |-> px]
    ELSE LET w_edge == 2 * i + 1
             n == Len(pdf_px)
             h == filter_h(filter_type, w_edge)
             front == SumProduct(SubSeq(pdf_px, 1, IF w_edge < n THEN w_edge
                                                   ELSE n), h)
             back == SumProduct(SubSeq(pdf_px,
                                       IF w_edge < n THEN n - w_edge + 1 ELSE 1,
                                       n), h)
         IN  IF n < w_edge /\ n # 1
             THEN [status |-> "ValueError", px |-> px]
             ELSE IF i >= Len(px)
             THEN [status |-> "IndexError", px |-> px]
             ELSE preserve_edges_from(
                      [[px EXCEPT ![i + 1] = front]
                          EXCEPT ![Len(px) - i] = back],
                      pdf_px, filter_type, w2, i + 1)

\* filter_pdf that leaves the edge values as the padded convolution gave them
filter_pdf_padded(pdf, filter_type, filter_width, padding, preserve_edges) ==
    LET w2 == filter_width \div 2
        px == trim(convolve_same(pad(pdf.px, w2, padding),
                                 filter_h(filter_type, filter_width)), w2)
        r == PDF__init__(pdf.x, px, TRUE, pdf.name, pdf.variable_type,
                         pdf.unit)
    IN  [status |-> r.status, obj |-> r.obj]

\* filter_pdf
filter_pdf(pdf, filter_type, filter_width, padding, preserve_edges) ==
    LET w2 == filter_width \div 2
        px == trim(convolve_same(pad(pdf.px, w2, padding),
                                 filter_h(filter_type, filter_width)), w2)
        e == IF preserve_edges
             THEN preserve_edges_from(px, pdf.px, filter_type, w2, 0)
             ELSE [status |-> "ok", px |-> px]
        r == PDF__init__(pdf.x, e.px, TRUE, pdf.name, pdf.variable_type,
                         pdf.unit)
    IN  IF e.status # "ok" THEN [status |-> e.status, obj |-> NoPDF]
        ELSE [status |-> r.status, obj |-> r.obj]

\* the PDFs the caller filters: regularly and irregularly sampled, of one to
\* five samples, flat, rising, and peaked at the edge and off the edge
FilterDomains ==
    {<<I(0)>>, <<I(0), I(1)>>, <<I(0), I(1), I(2)>>, <<I(0), I(1), I(3)>>,
     <<I(0), I(1), I(2), I(3)>>, <<I(0), I(1), I(2), I(3), I(4)>>}

FilterDensities(x) ==
    {[i \in 1..Len(x) |-> I(1)], [i \in 1..Len(x) |-> I(i - 1)],
     [i \in 1..Len(x) |-> IF i = 1 THEN I(1) ELSE I(0)],
     [i \in 1..Len(x) |-> IF i = 2 THEN I(1) ELSE I(0)]}

FilterPDFs ==
    {PDF__init__(x, px, TRUE, None, None, None).obj :
        x \in FilterDomains,
        px \in UNION {FilterDensities(d) : d \in FilterDomains}} \ {NoPDF}

FILTER_TYPES == {"mean", "gaussian"}

InitFilter ==
    /\ arrays = [x |-> <<>>, px |-> <<>>]
    /\ pdfs \in [1..1 -> FilterPDFs]
    /\ ret = NoCall
    /\ calls = 0

\* filt_pdf = filter_pdf(pdfs[0], filter_type, filter_width, padding,
\*                       preserve_edges)
Filter ==
    /\ calls = 0
    /\ \E filter_type \in FILTER_TYPES, filter_width \in 1..MaxWidth,
          padding \in {"zeros", "edge"}, preserve_edges \in BOOLEAN :
         LET r == filter_pdf(pdfs[1], filter_type, filter_width, padding,
                             preserve_edges)
         IN  ret' = [CallValue("filter_pdf", r.status, <<>>,
                               [filter_type |-> filter_type,
                                filter_width |-> filter_width,
                                padding |-> padding,
                                preserve_edges |-> preserve_edges])
                        EXCEPT !.obj = r.obj]
    /\ calls' = calls + 1
    /\ UNCHANGED <<arrays, pdfs>>

NextFilter == Filter

SpecFilter == InitFilter /\ [][NextFilter]_vars

\* C17: for every filter type, every filter width >= 1 and every PDF of n
\* samples, filter_pdf returns a PDF on the same x array with exactly n
\* density samples and unit area.
C17_FilterKeepsLength ==
    ret.op = "filter_pdf" =>
        /\ ret.status = "ok"
        /\ ret.obj.x = ret.before.pdfs[1].x
        /\ Len(ret.obj.px) = Len(ret.before.pdfs[1].x)
        /\ trapezoid(ret.obj.px, ret.obj.x) = I(1)

\* the value the filter of the given width, centred on sample k and cut to
\* the samples at most w from it, gives on px before the area is rescaled
Windowed(px, filter_type, k, w) ==
    SumProduct(SubSeq(px, k - w, k + w), filter_h(filter_type, 2 * w + 1))

\* the filtered value of an inner sample k: the window of the full filter
Inner(px, filter_type, filter_width, k) ==
    LET start == (filter_width - 1) \div 2
        h == filter_h(filter_type, filter_width)
    IN  Sum([j \in 1..filter_width |-> FMul(px[k + start - j + 1], h[j])])

\* C18: with preserve_edges, filter_pdf gives the same outcome under the
\* zero-pad and the edge-replicate policy, and a returned density is, up to
\* the rescaling of its area, at distance i < width//2 from an edge the
\* filter of width 2i+1 over the 2i+1 samples nearest that edge, and
\* elsewhere the full filter over samples of the domain.
C18_EdgesIgnorePadding ==
    (ret.op = "filter_pdf" /\ ret.args.preserve_edges) =>
        LET p == ret.before.pdfs[1]
            n == Len(p.px)
            w2 == ret.args.filter_width \div 2
            other == filter_pdf(p, ret.args.filter_type, ret.args.filter_width,
                                IF ret.args.padding = "edge" THEN "zeros"
                                ELSE "edge", TRUE)
            dist(k) == IF k - 1 < n - k THEN k - 1 ELSE n - k
            expected ==
                [k \in 1..n |->
                    IF dist(k) < w2
                    THEN Windowed(p.px, ret.args.filter_type, k, dist(k))
                    ELSE Inner(p.px, ret.args.filter_type,
                               ret.args.filter_width, k)]
        IN  /\ other.status = ret.status
            /\ other.obj.px = ret.obj.px
            /\ ret.status = "ok" =>
                  /\ Len(ret.obj.px) = n
                  /\ Proportional(ret.obj.px, expected, 1..n)

\* a width-5 filter over five samples, returned with preserved edges, that
\* the edge-replicate padding alone would have filtered differently
C18_Witness ==
    /\ ret.op = "filter_pdf"
    /\ ret.args.preserve_edges
    /\ ret.args.padding = "edge"
    /\ ret.args.filter_width = 5
    /\ ret.status = "ok"
    /\ Len(ret.obj.px) = 5
    /\ ret.obj.px[1] # ret.obj.px[2]
    /\ filter_pdf(ret.before.pdfs[1], ret.args.filter_type, 5, "edge",
                  FALSE).obj.px # ret.obj.px

-----------------------------------------------------------------------------
(* probability_functions/analytics.py                                      *)

\* ProbabilityDensityFunction.inverse_transform: np.interp(y, self.Px, self.x)
inverse_transform(pdf, y) ==
    interp_value(y, pdf.Px, pdf.x, pdf.x[1], pdf.x[Len(pdf.x)])

\* pdf.<name>(y): the method is looked up in the class when the call is
\* reached; a name the class does not define raises AttributeError
PDF_call(name, pdf, y) ==
    IF PDF_getattr(name) # "ok"
    THEN [status |-> PDF_getattr(name), value |-> NaN]
    ELSE [status |-> "ok",
          value |-> CASE name = "inverse_transform"
                           -> inverse_transform(pdf, y)]

\* compute_interquantile_range
compute_interquantile_range(pdf, confidence) ==
    LET half_confidence == FDiv(confidence, I(2))
        lower == FSub(F(1, 2), half_confidence)
        upper == FAdd(F(1, 2), half_confidence)
        lo == PDF_call("inversse_transform", pdf, lower)
        up == PDF_call("inversse_transform", pdf, upper)
    IN  IF lo.status # "ok" THEN [status |-> lo.status, values |-> <<>>]
        ELSE IF up.status # "ok" THEN [status |-> up.status, values |-> <<>>]
        ELSE [status |-> "ok", values |-> <<lo.value, up.value>>]

\* np.mean: nan for an empty array
mean(s) == IF Len(s) = 0 THEN NaN ELSE FDiv(Sum(s), I(Len(s)))

\* np.std(s) > v for v >= 0, by the variance
StdExceeds(s, v) ==
    LET m == mean(s)
        var == mean([i \in 1..Len(s) |->
                        FMul(FSub(s[i], m), FSub(s[i], m))])
    IN  FGt(var, FMul(I(v), I(v)))

\* find_dx: the bin sizes np.diff(x), with the mean of them appended (0 when
\* their standard deviation exceeds RISER_PRECISION)
find_dx(pdf) ==
    LET diff_x == Diff(pdf.x)
        last == IF StdExceeds(diff_x, RISER_PRECISION) THEN I(0)
                ELSE mean(diff_x)
    IN  [i \in 1..Len(pdf.x) |->
            fix_precision(IF i < Len(pdf.x) THEN diff_x[i] ELSE last)]

\* the orders in which np.argsort(p_i)[::-1] can list the samples: largest
\* first, nan before all, equal values in the order the sort leaves them
SortOrders(p_i) ==
    LET n == Len(p_i)
        NotBelow(a, b) == IsNaN(a) \/ (~IsNaN(b) /\ FLe(b, a))
    IN  {o \in [1..n -> 1..n] :
            /\ \A i, j \in 1..n : i # j => o[i] # o[j]
            /\ \A i \in 1..(n - 1) : NotBelow(p_i[o[i]], p_i[o[i + 1]])}

\* np.cumsum
cumsum(s) == [i \in 1..Len(s) |-> SumTo(s, i)]

\* the passes i, i+1, ... n_conf-1 of the loop that groups the kept samples
RECURSIVE clusters_from(_, _, _, _, _)
clusters_from(x_conf, vals_conf, i, cluster_start, clusters) ==
    IF i > Len(x_conf) - 1 THEN clusters
    ELSE IF vals_conf[i + 1] - vals_conf[i] > 1 \/ i = Len(x_conf) - 1
    THEN clusters_from(x_conf, vals_conf, i + 1, x_conf[i + 1],
                       Append(clusters, <<cluster_start, x_conf[i]>>))
    ELSE clusters_from(x_conf, vals_conf, i + 1, cluster_start, clusters)

\* compute_highest_posterior_density, with sort_ndx the order the sort gave.
\* The x values of a PDF handed to it are distinct, so the second argsort
\* lists the kept samples by index.
compute_highest_posterior_density(pdf, confidence, sort_ndx) ==
    LET n == Len(pdf.x)
        dx == find_dx(pdf)
        p_i == [i \in 1..n |-> FMul(pdf.px[i], dx[i])]
        p_i_sort == [k \in 1..n |-> p_i[sort_ndx[k]]]
        P_sort == cumsum(p_i_sort)
        kept == {sort_ndx[k] : k \in {k \in 1..n : FLe(P_sort[k], confidence)}}
        n_conf == Cardinality(kept)
        vals_conf == [k \in 1..n_conf |->
                         CHOOSE i \in kept :
                             Cardinality({j \in kept : j < i}) = k - 1]
        x_conf == [k \in 1..n_conf |-> pdf.x[vals_conf[k]]]
    IN  IF n_conf = 0 THEN [status |-> "IndexError", clusters |-> <<>>]
        ELSE [status |-> "ok",
              clusters |-> clusters_from(x_conf, vals_conf, 1, x_conf[1],
                                         <<>>)]

\* the PDFs the caller analyses: what PDF(x, px) constructs from flat,
\* rising, peaked and two-peaked densities, some with empty bins at the ends
\* of the domain
AnalyticsDomains ==
    {<<I(0), I(1)>>, <<I(0), I(1), I(2)>>, <<I(0), I(1), I(3)>>,
     <<I(0), I(1), I(2), I(3), I(4)>>}

AnalyticsDensities(x) ==
    {[i \in 1..Len(x) |-> I(1)], [i \in 1..Len(x) |-> I(i - 1)],
     [i \in 1..Len(x) |-> IF i = 2 THEN I(1) ELSE I(0)],
     [i \in 1..Len(x) |-> IF i \in {1, Len(x)} THEN I(0) ELSE I(1)],
     [i \in 1..Len(x) |-> IF i % 2 = 0 THEN I(2) ELSE I(1)],
     [i \in 1..Len(x) |-> IF i <= 2 THEN I(0) ELSE I(1)],
     [i \in 1..Len(x) |-> IF i >= Len(x) - 1 THEN I(0) ELSE I(1)]}

AnalyticsPDFs ==
    {PDF__init__(x, px, TRUE, None, None, None).obj :
        x \in AnalyticsDomains,
        px \in UNION {AnalyticsDensities(d) : d \in AnalyticsDomains}}
    \ {NoPDF}

Confidences == {F(1, 4), F(1, 2), F(7, 10), I(1)}

InitAnalytics ==
    /\ arrays = [x |-> <<>>, px |-> <<>>]
    /\ pdfs \in [1..1 -> AnalyticsPDFs]
    /\ ret = NoCall
    /\ calls = 0

\* values = compute_interquantile_range(pdfs[0], confidence)
InterquantileRange ==
    /\ calls = 0
    /\ \E confidence \in Confidences :
         LET r == compute_interquantile_range(pdfs[1], confidence)
         IN  ret' = CallValue("compute_interquantile_range", r.status,
                              r.values, [confidence |-> confidence])
    /\ calls' = calls + 1
    /\ UNCHANGED <<arrays, pdfs>>

\* clusters = compute_highest_posterior_density(pdfs[0], confidence); the
\* sort lists equal probabilities in any order
HighestPosteriorDensity ==
    /\ calls = 0
    /\ \E confidence \in Confidences :
         LET dx == find_dx(pdfs[1])
             p_i == [i \in 1..Len(dx) |-> FMul(pdfs[1].px[i], dx[i])]
         IN  \E sort_ndx \in SortOrders(p_i) :
                LET r == compute_highest_posterior_density(pdfs[1], confidence,
                                                           sort_ndx)
                IN  ret' = CallValue("compute_highest_posterior_density",
                                     r.status, r.clusters,
                                     [confidence |-> confidence,
                                      sort_ndx |-> sort_ndx])
    /\ calls' = calls + 1
    /\ UNCHANGED <<arrays, pdfs>>

NextAnalytics == InterquantileRange \/ HighestPosteriorDensity

SpecAnalytics == InitAnalytics /\ [][NextAnalytics]_vars

\* the probability mass sum(px[i] * dx[i]) of the samples of pdf whose x
\* lies in one of the clusters
CoveredMass(pdf, clusters) ==
    LET dx == find_dx(pdf)
    IN  Sum([i \in 1..Len(pdf.x) |->
                IF \E k \in 1..Len(clusters) :
                      FLe(clusters[k][1], pdf.x[i]) /\ FLe(pdf.x[i], clusters[k][2])
                THEN FMul(pdf.px[i], dx[i]) ELSE I(0)])

\* the largest mass px[i] * dx[i] of one bin of pdf
LargestBin(pdf) ==
    LET dx == find_dx(pdf)
    IN  KthSmallest([i \in 1..Len(pdf.x) |-> FMul(pdf.px[i], dx[i])],
                    Len(pdf.x))

C20_IqrQuantiles ==
    ret.op = "compute_interquantile_range" =>
        LET p == ret.before.pdfs[1]
            c == ret.args.confidence
        IN  /\ ret.status = "ok"
            /\ ret.value = <<inverse_transform(p, FSub(F(1, 2), FDiv(c, I(2)))),
                             inverse_transform(p, FAdd(F(1, 2), FDiv(c, I(2))))>>
            /\ FLe(ret.value[1], ret.value[2])
            /\ c = I(1) => ret.value = <<p.x[1], p.x[Len(p.x)]>>

\* the indices of the samples the descending-density accumulation selects
\* at the confidence asked for, for the order the sort gave
Selected(pdf, confidence, sort_ndx) ==
    LET n == Len(pdf.x)
        dx == find_dx(pdf)
        p_i_sort == [k \in 1..n |-> FMul(pdf.px[sort_ndx[k]], dx[sort_ndx[k]])]
        P_sort == cumsum(p_i_sort)
    IN  {sort_ndx[k] : k \in {k \in 1..n : FLe(P_sort[k], confidence)}}

\* the index of the sample of pdf at value v (0 when there is none)
IndexOf(pdf, v) ==
    IF \E i \in 1..Len(pdf.x) : pdf.x[i] = v
    THEN CHOOSE i \in 1..Len(pdf.x) : pdf.x[i] = v
    ELSE 0

C28_Failing ==
    /\ ret.op = "compute_highest_posterior_density"
    /\ ret.before.pdfs[1].x = <<I(0), I(1), I(2)>>
    /\ ret.before.pdfs[1].px = <<F(1, 2), F(1, 2), F(1, 2)>>
    /\ ret.args.confidence = I(1)

-----------------------------------------------------------------------------
(* markers/DatedMarker.py, slip_rates/DatedMarker.py                       *)

NoMarker == [age |-> NoPDF, displacement |-> NoPDF, name |-> None]

\* units.check_pdf_base_unit(pdf): the base unit it returns, or the
\* ValueError it raises for a PDF without a unit or with a unit that does
\* not parse
check_pdf_base_unit(pdf) ==
    IF pdf.unit = None THEN [status |-> "ValueError", base |-> None]
    ELSE LET p == parse_unit(pdf.unit)
         IN  IF p.status # "ok" THEN [status |-> p.status, base |-> None]
             ELSE [status |-> "ok", base |-> p.base]

\* the check of one PDF in markers.DatedMarker.__check_units__: a PDF
\* without a unit is warned about and accepted
check_marker_unit(pdf, base, warning) ==
    IF pdf.unit = None THEN [status |-> "ok", warnings |-> <<warning>>]
    ELSE LET b == check_pdf_base_unit(pdf)
         IN  IF b.status # "ok" THEN [status |-> b.status, warnings |-> <<>>]
             ELSE IF b.base # base
             THEN [status |-> "ValueError", warnings |-> <<>>]
             ELSE [status |-> "ok", warnings |-> <<>>]

\* markers.DatedMarker(age, displacement, name)
markers_DatedMarker(age, displacement, name) ==
    LET a == check_marker_unit(age, "y", "Age unit not specified")
        d == check_marker_unit(displacement, "m",
                               "Displacement unit not specified")
    IN  IF a.status # "ok"
        THEN [status |-> a.status, obj |-> NoMarker, warnings |-> <<>>]
        ELSE IF d.status # "ok"
        THEN [status |-> d.status, obj |-> NoMarker, warnings |-> a.warnings]
        ELSE [status |-> "ok",
              obj |-> [age |-> age, displacement |-> displacement,
                       name |-> name],
              warnings |-> a.warnings \o d.warnings]

\* slip_rates.DatedMarker(age, displacement)
slip_rates_DatedMarker(age, displacement) ==
    LET a == check_pdf_base_unit(age)
        d == check_pdf_base_unit(displacement)
    IN  IF a.status # "ok" THEN [status |-> a.status, obj |-> NoMarker]
        ELSE IF a.base # "y" THEN [status |-> "ValueError", obj |-> NoMarker]
        ELSE IF d.status # "ok" THEN [status |-> d.status, obj |-> NoMarker]
        ELSE IF d.base # "m" THEN [status |-> "ValueError", obj |-> NoMarker]
        ELSE [status |-> "ok",
              obj |-> [age |-> age, displacement |-> displacement,
                       name |-> None]]

\* the age and displacement PDFs the caller holds: uniform and ramp
\* densities over three domains, without a unit or in years or meters
MarkerUnits == {None, "y", "ky", "m", "km"}

MarkerPDFs ==
    {PDF__init__(x, px, TRUE, None, None, unit).obj :
        x \in AlgebraDomains,
        px \in UNION {AlgebraDensities(d) : d \in AlgebraDomains},
        unit \in MarkerUnits} \ {NoPDF}

\* pdfs = [age, displacement]
InitMarker ==
    /\ arrays = [x |-> <<>>, px |-> <<>>]
    /\ pdfs \in [1..2 -> MarkerPDFs]
    /\ ret = NoCall
    /\ calls = 0

\* marker = markers.DatedMarker(age, displacement, name=name)
ConstructMarker ==
    /\ calls = 0
    /\ \E name \in {None, "T1"} :
         \E r \in {markers_DatedMarker(pdfs[1], pdfs[2], name)} :
            ret' = CallValue("markers.DatedMarker", r.status, r.obj,
                             [warnings |-> r.warnings])
    /\ calls' = calls + 1
    /\ UNCHANGED <<arrays, pdfs>>

\* marker = slip_rates.DatedMarker(age, displacement)
ConstructSlipRateMarker ==
    /\ calls = 0
    /\ \E r \in {slip_rates_DatedMarker(pdfs[1], pdfs[2])} :
          ret' = CallValue("slip_rates.DatedMarker", r.status, r.obj,
                           [warnings |-> <<>>])
    /\ calls' = calls + 1
    /\ UNCHANGED <<arrays, pdfs>>

NextMarker == ConstructMarker \/ ConstructSlipRateMarker

SpecMarker == InitMarker /\ [][NextMarker]_vars

\* the base of a unit of the model: its last character
BaseOf(unit) == Chars(unit)[Len(Chars(unit))]

\* C27: DatedMarker construction fails unless the age PDF has a unit with
\* base y and the displacement PDF a unit with base m: every constructed
\* marker has both, and an unset unit is not accepted.
C27_MarkerUnitsChecked ==
    ret.op \in {"markers.DatedMarker", "slip_rates.DatedMarker"} =>
        LET age == ret.before.pdfs[1]
            displacement == ret.before.pdfs[2]
        IN  ret.status = "ok" <=>
                /\ age.unit # None /\ BaseOf(age.unit) = "y"
                /\ displacement.unit # None /\ BaseOf(displacement.unit) = "m"

-----------------------------------------------------------------------------
(* sampling/mc_sampling.py                                                 *)

\* the methods of the measurement classes Age and Displacement of
\* probability_functions/ProbabilityDensityFunctions.py
Measurement_namespace ==
    {"__init__", "__check_array_lengths__", "__compute_area__",
     "__normalize_area__", "validate", "__compute_cdf__",
     "compute_cdf_value", "compute_probability", "pit", "__len__"}

\* obj.<name>: "ok" when the class of obj defines the method, else the
\* AttributeError the lookup raises
getattr(obj, name) ==
    IF obj.cls = "PDF" THEN PDF_getattr(name)
    ELSE IF name \in Measurement_namespace THEN "ok"
    ELSE "AttributeError"

\* ProbabilityDensityFunctions.ProbabilityDensityFunction.pit:
\* np.interp(y, self.Px, self.x)
pit(pdf, y) == interp_value(y, pdf.Px, pdf.x, pdf.x[1], pdf.x[Len(pdf.x)])

\* the criterion objects: PassAll() and
\* PassNonnegativeBounded(max_sample_rate=...), np.inf by default
PassAll == [cls |-> "PassAll", max_sample_rate |-> Inf]

PassNonnegativeBounded(max_sample_rate) ==
    [cls |-> "PassNonnegativeBounded", max_sample_rate |-> max_sample_rate]

\* criterion.check_pass_fail(ages, displacements): .min() and .max() of the
\* empty difference of a single marker raise ValueError.  Called on a
\* criterion class instead of an object of it, the two arrays are taken for
\* self and ages, and the missing third argument raises TypeError.
check_pass_fail(criterion, ages, displacements) ==
    IF criterion.cls = "type" THEN [status |-> "TypeError", value |-> FALSE]
    ELSE IF criterion.cls = "PassAll" THEN [status |-> "ok", value |-> TRUE]
    ELSE LET age_diffs == Diff(ages)
             disp_diffs == Diff(displacements)
             slip_rates == [j \in 1..Len(age_diffs) |->
                               FDiv(disp_diffs[j], age_diffs[j])]
         IN  IF Len(age_diffs) = 0
             THEN [status |-> "ValueError", value |-> FALSE]
             ELSE [status |-> "ok",
                   value |-> /\ \A j \in 1..Len(age_diffs) :
                                    FGt(age_diffs[j], I(0))
                             /\ \A j \in 1..Len(disp_diffs) :
                                    FLe(I(0), disp_diffs[j])
                             /\ \A j \in 1..Len(slip_rates) :
                                    FLe(slip_rates[j],
                                        criterion.max_sample_rate)]

\* a cell of an np.empty array that has not been written
Uninit == [n |-> 0, d |-> -1]

\* np.empty((m_markers, n_samples))
empty(m_markers, n_samples) ==
    [j \in 1..m_markers |-> [k \in 1..n_samples |-> Uninit]]

\* picks[:, k] = samps
SetColumn(picks, k, samps) ==
    [j \in 1..Len(picks) |-> [picks[j] EXCEPT ![k] = samps[j]]]

\* picks[:, k]
Column(picks, k) == [j \in 1..Len(picks) |-> picks[j][k]]

\* the locals of sample_monte_carlo when the loop is entered
loop_entry(m_markers, n_samples) ==
    [status |-> "running", pc |-> "loop", i |-> 0, i_bound |-> FALSE,
     successes |-> 0, tossed |-> 0, log |-> <<>>,
     age_picks |-> empty(m_markers, n_samples),
     disp_picks |-> empty(m_markers, n_samples)]

\* one pass of the loop over the trials whose accept branch stores the
\* column after the success counter has been advanced
loop_body_late_store(st, markers, criterion, n_samples, r_ages, r_disps) ==
    LET m == Len(markers)
        st1 == [st EXCEPT !.i = IF st.i_bound THEN st.i + 1 ELSE 0,
                          !.i_bound = TRUE]
        no_pit == \E j \in 1..m :
                      \/ getattr(markers[j].age, "pit") # "ok"
                      \/ getattr(markers[j].displacement, "pit") # "ok"
        age_samps == [j \in 1..m |-> pit(markers[j].age, r_ages[j])]
        disp_samps == [j \in 1..m |-> pit(markers[j].displacement, r_disps[j])]
        c == check_pass_fail(criterion, age_samps, disp_samps)
        trial(accepted) == [ages |-> age_samps, displacements |-> disp_samps,
                            accepted |-> accepted]
    IN  IF no_pit THEN [st1 EXCEPT !.status = "AttributeError"]
        ELSE IF c.status # "ok" THEN [st1 EXCEPT !.status = c.status]
        ELSE IF c.value
        THEN IF st.successes + 1 >= n_samples
             THEN [st1 EXCEPT !.status = "IndexError"]
             ELSE [st1 EXCEPT
                     !.age_picks = SetColumn(@, st.successes + 2, age_samps),
                     !.disp_picks = SetColumn(@, st.successes + 2, disp_samps),
                     !.successes = @ + 1,
                     !.log = Append(@, trial(TRUE)),
                     !.pc = IF st.successes + 1 = n_samples THEN "after"
                            ELSE "loop"]
        ELSE [st1 EXCEPT !.tossed = @ + 1, !.log = Append(@, trial(FALSE))]

\* one pass of  for i in range(hard_stop):  the numbers r_ages and r_disps
\* have been drawn; log lists the completed trials
loop_body(st, markers, criterion, n_samples, r_ages, r_disps) ==
    LET m == Len(markers)
        st1 == [st EXCEPT !.i = IF st.i_bound THEN st.i + 1 ELSE 0,
                          !.i_bound = TRUE]
        no_pit == \E j \in 1..m :
                      \/ getattr(markers[j].age, "pit") # "ok"
                      \/ getattr(markers[j].displacement, "pit") # "ok"
        age_samps == [j \in 1..m |-> pit(markers[j].age, r_ages[j])]
        disp_samps == [j \in 1..m |-> pit(markers[j].displacement, r_disps[j])]
        c == check_pass_fail(criterion, age_samps, disp_samps)
        trial(accepted) == [ages |-> age_samps, displacements |-> disp_samps,
                            accepted |-> accepted]
    IN  IF no_pit THEN [st1 EXCEPT !.status = "AttributeError"]
        ELSE IF c.status # "ok" THEN [st1 EXCEPT !.status = c.status]
        ELSE IF c.value
        THEN IF st.successes >= n_samples
             THEN [st1 EXCEPT !.status = "IndexError"]
             ELSE [st1 EXCEPT
                     !.age_picks = SetColumn(@, st.successes + 1, age_samps),
                     !.disp_picks = SetColumn(@, st.successes + 1, disp_samps),
                     !.successes = @ + 1,
                     !.log = Append(@, trial(TRUE)),
                     !.pc = IF st.successes + 1 = n_samples THEN "after"
                            ELSE "loop"]
        ELSE [st1 EXCEPT !.tossed = @ + 1, !.log = Append(@, trial(FALSE))]

\* the markers the caller holds.  Age and Displacement objects are the
\* measurement classes with pit; "PDF" objects are what
\* riser.probability_functions.PDF constructs.  Uniform densities.
MarkerPDF(cls, x, unit) ==
    LET p == PDF__init__(x, [i \in 1..Len(x) |-> I(1)], TRUE, None, None,
                         unit).obj
    IN  [cls |-> cls, x |-> p.x, px |-> p.px, Px |-> p.Px, name |-> p.name,
         variable_type |-> p.variable_type, unit |-> p.unit]

SampledMarkers ==
    LET T1(a, d) == [name |-> "T1",
                     age |-> MarkerPDF(a, <<I(1), I(3)>>, "ky"),
                     displacement |-> MarkerPDF(d, <<I(0), I(2)>>, "m")]
        T2(a, d) == [name |-> "T2",
                     age |-> MarkerPDF(a, <<I(2), I(4)>>, "ky"),
                     displacement |-> MarkerPDF(d, <<I(1), I(3)>>, "m")]
    IN  {<<T1("Age", "Displacement"), T2("Age", "Displacement")>>,
         <<T1("Age", "Displacement")>>,
         <<T1("PDF", "PDF"), T2("PDF", "PDF")>>}

\* the values np.random.rand yields in the model, from [0.0, 1.0)
RandVals == {I(0), F(1, 2)}

\* the seeds the caller passes
Seeds == {0}

\* what memory handed out by np.empty can hold
Garbage == {I(1), I(2)}

\* the global generator of np.random before anything seeded it
Unseeded == [seed |-> -1, pos |-> 0]

\* the arguments of a call
SamplerArgs ==
    [criterion : {PassAll, PassNonnegativeBounded(Inf),
                  PassNonnegativeBounded(I(1))},
     n_samples : 1..MaxSamples,
     seed_val : Seeds,
     hard_stop : 0..MaxTrials]

\* the caller samples, and samples once more with the same arguments
Invocations == 2

NoSampling == [args |-> <<>>, status |-> "none", value |-> <<>>]

\* arrays holds the pick arrays of the running call, the state of the
\* global generator of np.random and, per seed, the numbers the generator
\* has yielded so far: a seed fixes the whole stream.  pdfs holds the
\* markers dict in key order.
InitSampling ==
    /\ arrays = [age_picks |-> <<>>, disp_picks |-> <<>>,
                 np_random |-> Unseeded,
                 streams |-> [s \in Seeds |-> <<>>]]
    /\ pdfs \in SampledMarkers
    /\ ret = [op |-> "none", status |-> "none", value |-> <<>>,
              args |-> <<>>, before |-> [arrays |-> <<>>, pdfs |-> <<>>],
              pc |-> "none", i |-> 0, i_bound |-> FALSE, successes |-> 0,
              tossed |-> 0, log |-> <<>>, warnings |-> <<>>,
              previous |-> NoSampling]
    /\ calls = 0

\* sample_monte_carlo(markers, criterion, n_samples=.., seed_val=..,
\* hard_stop=..) up to the loop; a later call repeats the arguments
SampleMonteCarlo ==
    /\ ret.status # "running"
    /\ calls < Invocations
    /\ \E args \in IF calls = 0 THEN SamplerArgs ELSE {ret.args} :
         \E st \in {loop_entry(Len(pdfs), args.n_samples)} :
            /\ arrays' = [arrays EXCEPT
                            !.age_picks = st.age_picks,
                            !.disp_picks = st.disp_picks,
                            !.np_random = [seed |-> args.seed_val, pos |-> 0]]
            /\ ret' = [op |-> "sample_monte_carlo", status |-> st.status,
                       value |-> <<>>, args |-> args,
                       before |-> [arrays |-> arrays, pdfs |-> pdfs],
                       pc |-> st.pc, i |-> st.i, i_bound |-> st.i_bound,
                       successes |-> st.successes, tossed |-> st.tossed,
                       log |-> st.log, warnings |-> <<>>,
                       previous |-> IF calls = 0 THEN NoSampling
                                    ELSE [args |-> ret.args,
                                          status |-> ret.status,
                                          value |-> ret.value]]
    /\ calls' = calls + 1
    /\ UNCHANGED pdfs

\* the next index of range(hard_stop)
NextIndex == IF ret.i_bound THEN ret.i + 1 ELSE 0

\* one trial: np.random.rand(m_markers) twice, then the body of the loop
Trial ==
    /\ ret.status = "running"
    /\ ret.pc = "loop"
    /\ NextIndex < ret.args.hard_stop
    /\ LET m == Len(pdfs)
           seed == arrays.np_random.seed
           pos == arrays.np_random.pos
           known == arrays.streams[seed]
       IN  \E r \in [1..(2 * m) -> RandVals] :
              /\ \A k \in 1..(2 * m) :
                    pos + k <= Len(known) => r[k] = known[pos + k]
              /\ \E st \in {loop_body(
                               [status |-> ret.status, pc |-> ret.pc,
                                i |-> ret.i, i_bound |-> ret.i_bound,
                                successes |-> ret.successes,
                                tossed |-> ret.tossed, log |-> ret.log,
                                age_picks |-> arrays.age_picks,
                                disp_picks |-> arrays.disp_picks],
                               pdfs, ret.args.criterion, ret.args.n_samples,
                               [j \in 1..m |-> r[j]],
                               [j \in 1..m |-> r[m + j]])} :
                    /\ arrays' =
                          [arrays EXCEPT
                             !.age_picks = st.age_picks,
                             !.disp_picks = st.disp_picks,
                             !.np_random.pos = pos + 2 * m,
                             !.streams[seed] =
                                 [k \in 1..(IF pos + 2 * m > Len(known)
                                            THEN pos + 2 * m ELSE Len(known))
                                     |-> IF k <= Len(known) THEN known[k]
                                         ELSE r[k - pos]]]
                    /\ ret' = [ret EXCEPT
                                 !.status = st.status, !.pc = st.pc,
                                 !.i = st.i, !.i_bound = st.i_bound,
                                 !.successes = st.successes,
                                 !.tossed = st.tossed, !.log = st.log]
    /\ UNCHANGED <<pdfs, calls>>

\* what the caller reads in an array whose unwritten cells hold g
Read(picks, g) ==
    [j \in 1..Len(picks) |->
        [k \in 1..Len(picks[j]) |->
            IF picks[j][k] = Uninit THEN g ELSE picks[j][k]]]

\* after the loop: the warning and the return.  i is not bound when the
\* loop made no pass.
ReturnPicks ==
    /\ ret.status = "running"
    /\ ret.pc = "after" \/ NextIndex >= ret.args.hard_stop
    /\ IF ~ret.i_bound
       THEN /\ ret' = [ret EXCEPT !.status = "UnboundLocalError",
                                  !.pc = "after"]
            /\ UNCHANGED arrays
       ELSE \E g_age, g_disp \in Garbage :
               /\ arrays' = [arrays EXCEPT
                               !.age_picks = Read(@, g_age),
                               !.disp_picks = Read(@, g_disp)]
               /\ ret' = [ret EXCEPT
                            !.status = "ok", !.pc = "after",
                            !.warnings =
                                IF ret.i = ret.args.hard_stop - 1
                                THEN <<"Only valid samples found before reaching trial limit">>
                                ELSE <<>>,
                            !.value = <<Read(arrays.age_picks, g_age),
                                        Read(arrays.disp_picks, g_disp)>>]
    /\ UNCHANGED <<pdfs, calls>>

NextSampling == SampleMonteCarlo \/ Trial \/ ReturnPicks

SpecSampling == InitSampling /\ [][NextSampling]_vars

\* the call the sampler is in, or was last in
Sampling == ret.op = "sample_monte_carlo"

\* the call has ended, by return or by exception
Ended == Sampling /\ ret.status # "running"

\* the accepted trials of the call, in order
Accepted == SelectSeq(ret.log, LAMBDA t : t.accepted)

\* C30: at every point of the loop successes + tossed is the number of
\* completed trials and 0 <= successes <= n_samples; columns 0..successes-1
\* of the pick arrays hold the accepted trials in order of acceptance, and
\* until the return no other column has been written.
C30_LoopCounters ==
    Sampling =>
        /\ ret.successes + ret.tossed = Len(ret.log)
        /\ ret.status \in {"running", "ok"} => Len(ret.log) = NextIndex
        /\ 0 <= ret.successes /\ ret.successes <= ret.args.n_samples
        /\ ret.successes = Len(Accepted)
        /\ \A k \in 1..ret.successes :
              /\ Column(arrays.age_picks, k) = Accepted[k].ages
              /\ Column(arrays.disp_picks, k) = Accepted[k].displacements
        /\ ret.status # "ok" =>
              \A k \in (ret.successes + 1)..ret.args.n_samples :
                 \A j \in 1..Len(pdfs) :
                    /\ arrays.age_picks[j][k] = Uninit
                    /\ arrays.disp_picks[j][k] = Uninit

\* the loop has accepted one trial and rejected another and goes on
C30_Witness ==
    /\ Sampling
    /\ ret.status = "running"
    /\ ret.pc = "loop"
    /\ ret.successes >= 1
    /\ ret.tossed >= 1

\* C21: with the accept-all criterion and hard_stop >= n_samples the call
\* makes exactly n_samples trials, accepts each (successes = n_samples,
\* tossed = 0) and returns two (n_markers x n_samples) arrays whose column k
\* holds the draw of trial k, in marker order.
C21_AcceptAllFills ==
    (Ended /\ ret.args.criterion = PassAll
           /\ ret.args.hard_stop >= ret.args.n_samples) =>
        /\ ret.status = "ok"
        /\ Len(ret.log) = ret.args.n_samples
        /\ ret.successes = ret.args.n_samples
        /\ ret.tossed = 0
        /\ Len(ret.value) = 2
        /\ \A a \in 1..2 :
              /\ Len(ret.value[a]) = Len(pdfs)
              /\ \A j \in 1..Len(pdfs) :
                    Len(ret.value[a][j]) = ret.args.n_samples
        /\ \A k \in 1..ret.args.n_samples :
              /\ Column(ret.value[1], k) = ret.log[k].ages
              /\ Column(ret.value[2], k) = ret.log[k].displacements

\* TRUE when a column of ages and displacements meets the bounded-rate
\* criterion
MeetsBound(ages, displacements, max_rate) ==
    \A j \in 1..(Len(ages) - 1) :
        /\ FGt(FSub(ages[j + 1], ages[j]), I(0))
        /\ FLe(I(0), FSub(displacements[j + 1], displacements[j]))
        /\ FLe(FDiv(FSub(displacements[j + 1], displacements[j]),
                    FSub(ages[j + 1], ages[j])), max_rate)

\* C22: with the bounded-rate criterion every column of the returned pick
\* arrays has, for every adjacent marker pair, an age difference > 0, a
\* displacement difference >= 0 and a rate <= max_rate, also when the trial
\* ceiling was reached before n_samples acceptances.
C22_ColumnsMeetCriterion ==
    (Sampling /\ ret.status = "ok"
              /\ ret.args.criterion.cls = "PassNonnegativeBounded") =>
        \A k \in 1..ret.args.n_samples :
            MeetsBound(Column(ret.value[1], k), Column(ret.value[2], k),
                       ret.args.criterion.max_sample_rate)

\* C23: the loop ends without raising: at the first trial at which the
\* success count reaches n_samples, with no further trial drawn, or after
\* exactly hard_stop trials, and then the pick arrays are returned.
C23_LoopEnds ==
    Sampling =>
        /\ ret.status \in {"running", "ok"}
        /\ ret.successes = ret.args.n_samples => ret.pc = "after"
        /\ ret.status = "ok" =>
              /\ Len(ret.value) = 2
              /\ \/ /\ ret.successes = ret.args.n_samples
                    /\ ret.log[Len(ret.log)].accepted
                    /\ Len(ret.log) <= ret.args.hard_stop
                 \/ /\ ret.successes < ret.args.n_samples
                    /\ Len(ret.log) = ret.args.hard_stop

\* TRUE when an accepted trial of the call can leave this column
PossiblePick(ages, displacements) ==
    \E r \in [1..(2 * Len(pdfs)) -> RandVals] :
        /\ check_pass_fail(ret.args.criterion, ages, displacements).value
        /\ \A j \in 1..Len(pdfs) :
              /\ ages[j] = pit(pdfs[j].age, r[j])
              /\ displacements[j] = pit(pdfs[j].displacement,
                                        r[Len(pdfs) + j])

\* C24: when the trial ceiling is reached before n_samples acceptances, the
\* caller can tell from the returned result how many columns accepted
\* trials filled: the result is only the two arrays, so no column that was
\* not filled holds what an accepted trial can leave there.
C24_ShortfallInResult ==
    (Sampling /\ ret.status = "ok"
              /\ ret.successes < ret.args.n_samples) =>
        \A k \in (ret.successes + 1)..ret.args.n_samples :
            ~PossiblePick(Column(ret.value[1], k), Column(ret.value[2], k))

\* C25: a call leaves the random-number state outside it as it was, and two
\* calls with the same arguments and seed return the same pick arrays.
C25_NoSharedState ==
    Ended =>
        /\ arrays.np_random = ret.before.arrays.np_random
        /\ (ret.previous.status # "none" /\ ret.previous.args = ret.args) =>
              /\ ret.status = ret.previous.status
              /\ ret.value = ret.previous.value

\* C29: the shortfall warning is given exactly when hard_stop trials were
\* made with fewer than n_samples of them accepted; it is not given when the
\* n_samples-th acceptance happens on trial number hard_stop.
C29_WarningOnShortfall ==
    (Sampling /\ ret.status = "ok") =>
        (ret.warnings # <<>> <=>
            /\ Len(ret.log) = ret.args.hard_stop
            /\ ret.successes < ret.args.n_samples)

-----------------------------------------------------------------------------
(* slip_rates/rate_computation.py                                          *)

\* get_sample_criterion: the criterion class for a name, or ValueError.  The
\* name is lower-cased and stripped of "pass", "-" and "_".
get_sample_criterion(criterion_name) ==
    CASE criterion_name \in {"pass-all", "all"}
            -> [status |-> "ok",
                value |-> [cls |-> "type", name |-> "PassAll",
                           max_sample_rate |-> Inf]]
      [] criterion_name \in {"pass-non-negative", "nonnegative"}
            -> [status |-> "ok",
                value |-> [cls |-> "type", name |-> "PassNonnegative",
                           max_sample_rate |-> Inf]]
      [] criterion_name \in {"pass-non-negative-bounded"}
            -> [status |-> "ok",
                value |-> [cls |-> "type", name |-> "PassNonnegativeBounded",
                           max_sample_rate |-> Inf]]
      [] OTHER -> [status |-> "ValueError", value |-> None]

\* the passes of the loop of sample_monte_carlo from the locals st on;
\* draws[i] holds the numbers np.random.rand yields in pass i
RECURSIVE run_loop(_, _, _, _, _, _)
run_loop(st, markers, criterion, n_samples, hard_stop, draws) ==
    LET next == IF st.i_bound THEN st.i + 1 ELSE 0
        m == Len(markers)
    IN  IF st.status # "running" \/ st.pc = "after" \/ next >= hard_stop
        THEN st
        ELSE With(loop_body(st, markers, criterion, n_samples,
                            [j \in 1..m |-> draws[next + 1][j]],
                            [j \in 1..m |-> draws[next + 1][m + j]]),
                  LAMBDA st1 : run_loop(st1, markers, criterion, n_samples,
                                        hard_stop, draws))

\* sample_monte_carlo as one call, for the numbers the generator yields and
\* what the unwritten cells of the two arrays hold
sample_monte_carlo(markers, criterion, n_samples, hard_stop, draws, g) ==
    With(run_loop(loop_entry(Len(markers), n_samples), markers, criterion,
                  n_samples, hard_stop, draws),
         LAMBDA st :
            IF st.status # "running"
            THEN [status |-> st.status, age_picks |-> <<>>,
                  disp_picks |-> <<>>]
            ELSE IF ~st.i_bound
            THEN [status |-> "UnboundLocalError", age_picks |-> <<>>,
                  disp_picks |-> <<>>]
            ELSE [status |-> "ok", age_picks |-> Read(st.age_picks, g[1]),
                  disp_picks |-> Read(st.disp_picks, g[2])])

\* the name of a marker in an f-string
Str(name) == IF name = None THEN "None" ELSE name

\* slip_rates[rate_name] = slip_rate: a dict as the list of its items
SetItem(d, key, value) ==
    IF \E k \in 1..Len(d) : d[k].key = key
    THEN [k \in 1..Len(d) |-> IF d[k].key = key
                              THEN [key |-> key, value |-> value] ELSE d[k]]
    ELSE Append(d, [key |-> key, value |-> value])

\* one pass of the loop of compute_slip_rates_analytical over the marker
\* pairs: the slip rate of the pair (i, i+1) and its name
analytical_pair(markers, i, limit_positive) ==
    LET younger_marker == markers[i].value
        older_marker == markers[i + 1].value
        rate_name == Str(older_marker.name) \o "-" \o Str(younger_marker.name)
        bad(status) == [status |-> status, name |-> rate_name, obj |-> NoPDF]
    IN  With(interpolate_pdfs(<<younger_marker.age, older_marker.age>>),
          LAMBDA ages :
            IF ages.status # "ok" THEN bad(ages.status)
            ELSE With(subtract_variables(ages.pdfs[2], ages.pdfs[1], TRUE),
              LAMBDA DeltaT :
                IF DeltaT.status # "ok" THEN bad(DeltaT.status)
                ELSE With(interpolate_pdfs(<<younger_marker.displacement,
                                             older_marker.displacement>>),
                  LAMBDA disps :
                    IF disps.status # "ok" THEN bad(disps.status)
                    ELSE With(subtract_variables(disps.pdfs[2], disps.pdfs[1],
                                                 limit_positive),
                      LAMBDA DeltaU :
                        IF DeltaU.status # "ok" THEN bad(DeltaU.status)
                        ELSE With(divide_variables(DeltaU.obj, DeltaT.obj,
                                                   I(100), F(1, 100)),
                          LAMBDA slip_rate :
                            [status |-> slip_rate.status, name |-> rate_name,
                             obj |-> slip_rate.obj])))))

\* the passes i, i+1, ... of that loop
RECURSIVE analytical_from(_, _, _, _)
analytical_from(markers, i, limit_positive, slip_rates) ==
    IF i > Len(markers) - 1
    THEN [status |-> "ok", slip_rates |-> slip_rates]
    ELSE With(analytical_pair(markers, i, limit_positive),
              LAMBDA r :
                 IF r.status # "ok"
                 THEN [status |-> r.status, slip_rates |-> <<>>]
                 ELSE analytical_from(markers, i + 1, limit_positive,
                                      SetItem(slip_rates, r.name, r.obj)))

\* compute_slip_rates_analytical(markers, limit_positive=..): the variable
\* type and unit checks before the loop only compute a value that is dropped
compute_slip_rates_analytical(markers, limit_positive) ==
    analytical_from(markers, 1, limit_positive, <<>>)

\* the loop of compute_slip_rates_mc over the incremental slip rates, from
\* pass i on.  The PDF formed from the rate samples of a pair is stood for
\* by the samples it is formed from.
RECURSIVE mc_from(_, _, _, _)
mc_from(markers, rate_picks, i, slip_rates) ==
    IF i > Len(markers) - 1 THEN slip_rates
    ELSE mc_from(markers, rate_picks, i + 1,
                 SetItem(slip_rates,
                         Str(markers[i + 1].key) \o "-" \o Str(markers[i].key),
                         rate_picks[i]))

\* compute_slip_rates_mc(markers, condition, n_samples=.., hard_stop=..)
compute_slip_rates_mc(markers, condition, n_samples, hard_stop, draws, g) ==
    LET criterion == get_sample_criterion(condition)
        values == [k \in 1..Len(markers) |-> markers[k].value]
    IN  IF criterion.status # "ok"
        THEN [status |-> criterion.status, slip_rates |-> <<>>]
        ELSE With(sample_monte_carlo(values, criterion.value, n_samples,
                                     hard_stop, draws, g),
               LAMBDA picks :
                  IF picks.status # "ok"
                  THEN [status |-> picks.status, slip_rates |-> <<>>]
                  ELSE LET rate_picks ==
                               [i \in 1..(Len(markers) - 1) |->
                                  [k \in 1..n_samples |->
                                     FDiv(FSub(picks.disp_picks[i + 1][k],
                                               picks.disp_picks[i][k]),
                                          FSub(picks.age_picks[i + 1][k],
                                               picks.age_picks[i][k]))]]
                       IN  [status |-> "ok",
                            slip_rates |-> mc_from(markers, rate_picks, 1,
                                                   <<>>)])

\* the markers dicts the caller holds, as lists of items in key order:
\* chains of two and three DatedMarker objects built from PDF(...) objects,
\* named after their key or not named
RateMarker(k, name) ==
    [key |-> <<"T1", "T2", "T3">>[k],
     value |-> [name |-> name,
                age |-> MarkerPDF("PDF", <<I(k), I(k + 2)>>, "y"),
                displacement |-> MarkerPDF("PDF", <<I(k - 1), I(k + 1)>>, "m")]]

RateMarkers ==
    UNION {{[k \in 1..n |-> RateMarker(k, IF named[k] THEN <<"T1", "T2", "T3">>[k]
                                          ELSE None)] :
               named \in [1..n -> BOOLEAN]} : n \in 2..3}

\* largest hard_stop handed to compute_slip_rates_mc
RateTrials == 1

\* pdfs holds the markers dict
InitRates ==
    /\ arrays = [x |-> <<>>, px |-> <<>>]
    /\ pdfs \in RateMarkers
    /\ ret = NoCall
    /\ calls = 0

\* slip_rates = compute_slip_rates_analytical(markers,
\*                                            limit_positive=limit_positive)
SlipRatesAnalytical ==
    /\ calls = 0
    /\ \E limit_positive \in BOOLEAN :
         \E r \in {compute_slip_rates_analytical(pdfs, limit_positive)} :
            ret' = CallValue("compute_slip_rates_analytical", r.status,
                             r.slip_rates,
                             [limit_positive |-> limit_positive])
    /\ calls' = calls + 1
    /\ UNCHANGED <<arrays, pdfs>>

\* slip_rates, age_picks, disp_picks, rate_picks =
\*     compute_slip_rates_mc(markers, condition, n_samples=n_samples,
\*                           hard_stop=hard_stop)
SlipRatesMC ==
    /\ calls = 0
    /\ \E condition \in {"pass-all", "pass-non-negative-bounded", "bounded"},
          n_samples \in 1..MaxSamples, hard_stop \in 0..RateTrials,
          g \in [1..2 -> Garbage] :
         \E draws \in [1..hard_stop -> [1..(2 * Len(pdfs)) -> RandVals]] :
            \E r \in {compute_slip_rates_mc(pdfs, condition, n_samples,
                                            hard_stop, draws, g)} :
               ret' = CallValue("compute_slip_rates_mc", r.status,
                                r.slip_rates,
                                [condition |-> condition,
                                 n_samples |-> n_samples,
                                 hard_stop |-> hard_stop])
    /\ calls' = calls + 1
    /\ UNCHANGED <<arrays, pdfs>>

NextRates == SlipRatesAnalytical \/ SlipRatesMC

SpecRates == InitRates /\ [][NextRates]_vars

\* C26: for n >= 2 markers both paths return n-1 slip-rate PDFs, one per
\* adjacent marker pair in marker order, the i-th keyed
\* '<name of marker i+1>-<name of marker i>' and no entry overwritten.
C26_OneRatePerPair ==
    ret.op \in {"compute_slip_rates_analytical", "compute_slip_rates_mc"} =>
        LET markers == ret.before.pdfs
        IN  /\ ret.status = "ok"
            /\ Len(ret.value) = Len(markers) - 1
            /\ \A i \in 1..(Len(markers) - 1) :
                  i <= Len(ret.value) =>
                     ret.value[i].key =
                         Str(markers[i + 1].key) \o "-" \o Str(markers[i].key)

====
